---------------------------- MODULE Spec2Model ----------------------------
(***************************************************************************)
(* A model of the Weblate client library wlc (wlc/__init__.py): the lazy   *)
(* object proxy (LazyObject and its kinds), the paginated listing          *)
(* generator (Weblate.list_factory) and the classification of HTTP         *)
(* responses by the transport (Weblate.invoke_request / process_error /    *)
(* request).                                                               *)
(*                                                                         *)
(* Python values are modelled as tuples of strings so that any two values  *)
(* can be compared:  <<"str", s>>  a string,  <<"None">>  None,            *)
(* <<"datetime", s>>  a parsed timestamp,  <<"dict", url, rev>>  an inline *)
(* JSON object,  <<"LazyObject", kind, url, content>>  a nested proxy.     *)
(***************************************************************************)
EXTENDS Naturals, Sequences, FiniteSets, TLC

VARIABLES
    kind,       \* the class of the proxy under observation
    obj,        \* the proxy: [_url, _data, _attribs, _loaded]
    created,    \* history: [url, minimal] as given to __init__
    lastOp,     \* history: the last call made on the proxy and what it did
    phase,      \* history: while the calls so far are all of one method,
                \* the GETs they sent and the refreshes they completed
    listing,    \* the server's listing: its pages, in the order of their links
    gen,        \* the generator the last list call returned, and its frame
    wire,       \* history: the paths of the GETs the Weblate object has sent
    calls,      \* history: per list call, the GETs it caused and its items
    http,       \* the last exchange of the transport and how it ended
    facade,     \* the last call of a method of the Weblate facade: its
                \* arguments, the requests it made and how it ended
    weblate,    \* the Weblate object, as its constructor left it
    io,         \* the last invoke_request of that object: what it handed to
                \* the session and how it ended
    cli,        \* the last run of the command line: its configuration
                \* files, its arguments and how it ended
    server,     \* the resource behind the proxy as the server holds it, and
                \* history: the last answer the server gave to the proxy
    nested      \* a mapped field as the server sends it, and the nested
                \* proxies it resolves to

vars ==
    <<kind, obj, created, lastOp, phase, listing, gen, wire, calls, http,
      facade, weblate, io, cli, server, nested>>


-----------------------------------------------------------------------------
(* Bounds of the model.                                                    *)

\* the GETs of a run of calls of one method are counted up to this number
MaxGets == 2

-----------------------------------------------------------------------------
(* Values.                                                                 *)

Str(s) == <<"str", s>>
None == <<"None">>
DateTime(s) == <<"datetime", s>>
Dict(u, rev) == <<"dict", u, rev>>
Lazy(k, u, content) == <<"LazyObject", k, u, content>>

isinstance_str(value) == value[1] = "str"

Range(seq) == {seq[i] : i \in 1..Len(seq)}

EmptyDict == [n \in {} |-> None]

-----------------------------------------------------------------------------
(* The kinds and their schemas, as the classes declare them.               *)

Kinds ==
    {"Language", "LanguageStats", "ProjectRepository", "Repository",
     "Project", "Component", "Translation", "Statistics",
     "TranslationStatistics", "Change", "Unit"}

TIMESTAMPS == {"last_change"}

StatisticsPARAMS ==
    <<"failing_percent", "translated_percent", "total_words", "failing",
      "translated_words", "fuzzy_percent", "recent_changes", "translated",
      "fuzzy", "total", "last_change", "name", "url">>

PARAMS(k) ==
    CASE k = "Language" ->
            <<"url", "web_url", "code", "name", "direction">>
      [] k = "LanguageStats" ->
            <<"total", "code", "translated_words", "language", "translated",
              "translated_percent", "total_words", "words_percent">>
      [] k = "ProjectRepository" ->
            <<"url", "needs_commit", "needs_merge", "needs_push">>
      [] k = "Repository" ->
            <<"url", "needs_commit", "needs_merge", "needs_push", "status",
              "merge_failure", "remote_commit">>
      [] k = "Project" ->
            <<"url", "web_url", "name", "slug", "web", "source_language">>
      [] k = "Component" ->
            <<"url", "web_url", "name", "slug", "project", "source_language",
              "vcs", "repo", "git_export", "branch", "filemask", "template",
              "new_base", "file_format", "license", "license_url",
              "source_language", "is_glossary">>
      [] k = "Translation" ->
            <<"url", "web_url", "language", "component", "translated",
              "fuzzy", "total", "translated_words", "fuzzy_words",
              "failing_checks_words", "total_words", "failing_checks",
              "have_suggestion", "have_comment", "language_code", "filename",
              "revision", "share_url", "translate_url", "is_template",
              "translated_percent", "fuzzy_percent",
              "failing_checks_percent", "last_change", "last_author">>
      [] k = "Statistics" -> StatisticsPARAMS
      [] k = "TranslationStatistics" ->
            StatisticsPARAMS \o <<"code", "last_author">>
      [] k = "Change" ->
            <<"url", "unit", "translation", "component", "timestamp",
              "action_name", "target">>
      [] k = "Unit" ->
            <<"approved", "content_hash", "context", "explanation",
              "extra_flags", "flags", "fuzzy", "has_comment",
              "has_failing_check", "has_suggestion", "id", "id_hash",
              "location", "note", "num_words", "position",
              "previous_source", "priority", "source", "source_unit",
              "state", "target", "translated", "translation", "url",
              "web_url">>

OPTIONALS(k) ==
    CASE k = "Project" -> {"source_language"}
      [] k = "Component" -> {"source_language", "is_glossary"}
      [] OTHER -> {}

\* MAPPINGS[param] is the class a mapped field is wrapped in
MAPPINGS(k) ==
    CASE k = "Project" -> [n \in {"source_language"} |-> "Language"]
      [] k = "Component" ->
            [n \in {"project", "source_language"} |->
                IF n = "project" THEN "Project" ELSE "Language"]
      [] k = "Translation" ->
            [n \in {"language", "component"} |->
                IF n = "language" THEN "Language" ELSE "Component"]
      [] k = "Change" ->
            [n \in {"translation", "component"} |->
                IF n = "translation" THEN "Translation" ELSE "Component"]
      [] k = "Unit" -> [n \in {"translation"} |-> "Translation"]
      [] OTHER -> [n \in {} |-> ""]

ID(k) ==
    CASE k \in {"Language", "LanguageStats"} -> "code"
      [] k \in {"Project", "Component"} -> "slug"
      [] k = "Translation" -> "language_code"
      [] k \in {"Change", "Unit"} -> "id"
      [] OTHER -> "url"

\* the classes that inherit RepoMixin through RepoObjectMixin
RepoObjects == {"Project", "Component", "Translation"}
\* the classes that define delete()
Deletable == {"Project", "Component", "Translation", "Unit"}


-----------------------------------------------------------------------------
(* The server.  A GET of the proxy's location is answered with one of the  *)
(* documents below or fails.  A document holds every non-optional schema   *)
(* field of the kind, the optional fields the server version knows, and    *)
(* (for servers that send them) the non-schema link entries.  Revision "a" *)
(* is the resource as first published; revision "b" is the resource after  *)
(* it was edited and moved, serialised with its relations expanded inline. *)

Location == "http://127.0.0.1:8000/api/resource/"
MovedUrl == "http://127.0.0.1:8000/api/renamed/"

Revisions == {"a", "b"}

\* the non-schema entries a document of the kind carries
EXTRAS(k) ==
    CASE k \in RepoObjects -> {"repository_url"}
      [] k = "Change" -> {"id"}
      [] k = "Language" -> {"statistics_url"}
      [] OTHER -> {}

FieldJson(k, n, rev) ==
    CASE n = "url" -> Str(IF rev = "a" THEN Location ELSE MovedUrl)
      [] n \in EXTRAS(k) -> Str(n)
      [] n \in DOMAIN MAPPINGS(k) ->
            IF rev = "a" THEN Str(n)
            ELSE IF n \in OPTIONALS(k) THEN None ELSE Dict(n, rev)
      [] OTHER -> Str(rev)

Document(k, rev, opts, links) ==
    [n \in (Range(PARAMS(k)) \ OPTIONALS(k)) \cup opts
            \cup (IF links THEN EXTRAS(k) ELSE {}) |-> FieldJson(k, n, rev)]

Documents(k) ==
    {Document(k, rev, opts, links) :
        rev \in Revisions, opts \in SUBSET OPTIONALS(k), links \in BOOLEAN}

\* what Weblate.get(path) does: return the JSON document, or raise
Replies(k) ==
    {[raises |-> "", json |-> d] : d \in Documents(k)}
        \cup {[raises |-> "WeblateException", json |-> EmptyDict]}

RepliesOf == [k \in Kinds |-> Replies(k)]

Request(method, path) == [method |-> method, path |-> path]

-----------------------------------------------------------------------------
(* LazyObject.  Every method is an operator from the proxy (and the reply  *)
(* of the server to the GETs the call issues) to a result: the proxy after *)
(* the call, the requests sent, the exception raised ("" for none) and the *)
(* value returned.                                                         *)

Result(self, sent, raised, value) ==
    [self |-> self, sent |-> sent, raised |-> raised, value |-> value]

\* the value _load_params stores for kwargs[param]
Wrap(k, param, value) ==
    IF value # None /\ param \in DOMAIN MAPPINGS(k)
    THEN IF isinstance_str(value)
         THEN Lazy(MAPPINGS(k)[param], value[2], "")
         ELSE Lazy(MAPPINGS(k)[param], value[2], value[3])
    ELSE IF value # None /\ param \in TIMESTAMPS
         THEN DateTime(value[2])
         ELSE value

_load_params(k, self, kwargs) ==
    LET known == DOMAIN kwargs \cap Range(PARAMS(k))
        rest == DOMAIN kwargs \ Range(PARAMS(k))
    IN  [self EXCEPT
            !._data = [n \in DOMAIN self._data \cup known |->
                          IF n \in known THEN Wrap(k, n, kwargs[n])
                          ELSE self._data[n]],
            !._attribs = [n \in DOMAIN self._attribs \cup rest |->
                          IF n \in rest THEN kwargs[n]
                          ELSE self._attribs[n]]]

__init__(k, url, kwargs) ==
    LET blank == [_url |-> url, _data |-> EmptyDict, _attribs |-> EmptyDict,
                  _loaded |-> FALSE]
    IN  _load_params(k, _load_params(k, blank, kwargs),
                     [n \in {"url"} |-> Str(url)])

\* a refresh that follows the "url" field of the last document
refresh_by_url_field(k, self, reply) ==
    LET path == IF "url" \in DOMAIN self._data /\ self._data["url"] # None
                THEN self._data["url"][2] ELSE self._url
    IN  IF reply.raises # ""
        THEN Result(self, <<Request("GET", path)>>, reply.raises, None)
        ELSE Result([_load_params(k, self, reply.json) EXCEPT !._loaded = TRUE],
                    <<Request("GET", path)>>, "", None)

\* a refresh that marks the proxy loaded before it asks the server
refresh_loaded_first(k, self, reply) ==
    IF reply.raises # ""
    THEN Result([self EXCEPT !._loaded = TRUE],
                <<Request("GET", self._url)>>, reply.raises, None)
    ELSE Result([_load_params(k, self, reply.json) EXCEPT !._loaded = TRUE],
                <<Request("GET", self._url)>>, "", None)

refresh(k, self, reply) ==
    IF reply.raises # ""
    THEN Result(self, <<Request("GET", self._url)>>, reply.raises, None)
    ELSE Result([_load_params(k, self, reply.json) EXCEPT !._loaded = TRUE],
                <<Request("GET", self._url)>>, "", None)

\* an ensure_loaded that does not look at _loaded
ensure_loaded_unguarded(k, self, attrib, reply) ==
    IF attrib \in DOMAIN self._data \/ attrib \in DOMAIN self._attribs
    THEN Result(self, <<>>, "", None)
    ELSE refresh(k, self, reply)

ensure_loaded(k, self, attrib, reply) ==
    IF attrib \in DOMAIN self._data \/ attrib \in DOMAIN self._attribs
    THEN Result(self, <<>>, "", None)
    ELSE IF ~self._loaded
         THEN refresh(k, self, reply)
         ELSE Result(self, <<>>, "", None)

\* a __getattr__ that does not test the name against PARAMS
getattr_any_name(k, self, name, reply) ==
    LET r == IF name \notin DOMAIN self._data
             THEN refresh(k, self, reply)
             ELSE Result(self, <<>>, "", None)
    IN  IF r.raised # "" THEN r
        ELSE IF name \in DOMAIN r.self._data
             THEN Result(r.self, r.sent, "", r.self._data[name])
             ELSE Result(r.self, r.sent, "AttributeError", None)

__getattr__(k, self, name, reply) ==
    IF name \notin Range(PARAMS(k))
    THEN Result(self, <<>>, "AttributeError", None)
    ELSE LET r == IF name \notin DOMAIN self._data
                  THEN refresh(k, self, reply)
                  ELSE Result(self, <<>>, "", None)
         IN  IF r.raised # "" THEN r
             ELSE IF name \in DOMAIN r.self._data
                  THEN Result(r.self, r.sent, "", r.self._data[name])
                  ELSE Result(r.self, r.sent, "AttributeError", None)

\* a setattrvalue that stores a value under any name
setattrvalue_any_name(k, self, name, value) ==
    Result([self EXCEPT !._data =
                [n \in DOMAIN self._data \cup {name} |->
                    IF n = name THEN value ELSE self._data[n]]],
           <<>>, "", None)

setattrvalue(k, self, name, value) ==
    IF name \notin Range(PARAMS(k))
    THEN Result(self, <<>>, "AttributeError", None)
    ELSE Result([self EXCEPT !._data =
                    [n \in DOMAIN self._data \cup {name} |->
                        IF n = name THEN value ELSE self._data[n]]],
                <<>>, "", None)

\* list(obj.keys()): the generator body run to its end
keys(k, self, reply) ==
    LET r == IF Cardinality(DOMAIN self._data) <= 1
             THEN refresh(k, self, reply)
             ELSE Result(self, <<>>, "", None)
        yield(param) == param \notin OPTIONALS(k)
                            \/ param \in DOMAIN r.self._data
    IN  IF r.raised # "" THEN r
        ELSE Result(r.self, r.sent, "", SelectSeq(PARAMS(k), yield))

\* list(obj.items()): keys() is resumed after each __getattr__(key), so the
\* test "param in self._data" of keys() sees what the reads before it loaded
RECURSIVE items_loop(_, _, _, _, _)
items_loop(k, r, i, reply, yielded) ==
    IF i > Len(PARAMS(k)) THEN Result(r.self, r.sent, "", yielded)
    ELSE LET param == PARAMS(k)[i]
         IN  IF param \notin OPTIONALS(k) \/ param \in DOMAIN r.self._data
             THEN LET g == __getattr__(k, r.self, param, reply)
                  IN  IF g.raised # ""
                      THEN Result(g.self, r.sent \o g.sent, g.raised, None)
                      ELSE items_loop(k,
                               Result(g.self, r.sent \o g.sent, "", None),
                               i + 1, reply, Append(yielded, param))
             ELSE items_loop(k, r, i + 1, reply, yielded)

items(k, self, reply) ==
    LET r == IF Cardinality(DOMAIN self._data) <= 1
             THEN refresh(k, self, reply)
             ELSE Result(self, <<>>, "", None)
    IN  IF r.raised # "" THEN r ELSE items_loop(k, r, 1, reply, <<>>)

to_value(k, self, reply) ==
    LET e == ensure_loaded(k, self, ID(k), reply)
    IN  IF e.raised # "" THEN e
        ELSE LET g == __getattr__(k, e.self, ID(k), reply)
             IN  Result(g.self, e.sent \o g.sent, g.raised, g.value)

\* RepoMixin._get_repo_url, and its override in ProjectRepository
_get_repo_url(k, self, reply) ==
    IF k \in {"ProjectRepository", "Repository"}
    THEN Result(self, <<>>, "", self._data["url"])
    ELSE LET e == ensure_loaded(k, self, "repository_url", reply)
         IN  IF e.raised # "" THEN e
             ELSE IF "repository_url" \in DOMAIN e.self._attribs
                  THEN Result(e.self, e.sent, "",
                              e.self._attribs["repository_url"])
                  ELSE Result(e.self, e.sent, "KeyError", None)

RepoOperations == {"commit", "push", "pull", "reset", "cleanup"}

\* a repository operation posted to the location of the proxy
repo_post_to_location(k, self, operation, reply, post_raises) ==
    LET u == _get_repo_url(k, self, reply)
    IN  IF u.raised # "" THEN u
        ELSE Result(u.self,
                    Append(u.sent,
                        [method |-> "POST", path |-> self._url,
                         operation |-> operation]),
                    post_raises, None)

\* commit / push / pull / reset / cleanup: weblate.post(url, operation=...)
repo_post(k, self, operation, reply, post_raises) ==
    LET u == _get_repo_url(k, self, reply)
    IN  IF u.raised # "" THEN u
        ELSE Result(u.self,
                    Append(u.sent,
                        [method |-> "POST", path |-> u.value[2],
                         operation |-> operation]),
                    post_raises, None)

\* a delete that drops what the proxy knew of the resource
delete_and_forget(k, self, delete_raises) ==
    Result(IF delete_raises = ""
           THEN [self EXCEPT !._attribs = EmptyDict, !._loaded = FALSE]
           ELSE self,
           <<Request("DELETE", self._url)>>, delete_raises, None)

\* Project.delete, Component.delete, Translation.delete, Unit.delete
delete(k, self, delete_raises) ==
    Result(self, <<Request("DELETE", self._url)>>, delete_raises, None)

-----------------------------------------------------------------------------
(* The proxy as a state machine: one proxy of some kind, built either from *)
(* a minimal {url} payload or from a document of the server, and then      *)
(* called by its owner in any order.                                       *)

\* the first field of the kind that is wrapped, if any, else its second field
Relation(k) ==
    LET mapped == {i \in 1..Len(PARAMS(k)) : PARAMS(k)[i] \in DOMAIN MAPPINGS(k)}
    IN  IF mapped = {} THEN PARAMS(k)[2]
        ELSE PARAMS(k)[CHOOSE i \in mapped : \A j \in mapped : i <= j]

\* the names the owner asks for
ReadNames(k) ==
    {"url", PARAMS(k)[2], ID(k), Relation(k), "invalid_attribute"}
        \cup OPTIONALS(k) \cup EXTRAS(k)
EnsureNames(k) == EXTRAS(k) \cup {ID(k), "missing"}
SetNames(k) == {Relation(k), "missing"}
\* the value the owner stamps: (main.py) the parent object, or a string
SetValue(k, n) ==
    IF n \in DOMAIN MAPPINGS(k)
    THEN Lazy(MAPPINGS(k)[n], "parent", "a") ELSE Str("stamped")

ReadNamesOf == [k \in Kinds |-> ReadNames(k)]
EnsureNamesOf == [k \in Kinds |-> EnsureNames(k)]
SetNamesOf == [k \in Kinds |-> SetNames(k)]

Without(d, n) == [m \in DOMAIN d \ {n} |-> d[m]]

\* what a call did, as the history keeps it
Did(op, name, self, r) ==
    [op |-> op, name |-> name, raised |-> r.raised, sent |-> r.sent,
     wasLoaded |-> self._loaded,
     wasKnown |-> name \in DOMAIN self._data,
     wasExtra |-> name \in DOMAIN self._attribs,
     value |-> IF op = "keys" /\ r.raised = "" THEN r.value ELSE <<>>,
     changed |-> r.self # self,
     clobbered |-> \E n \in DOMAIN self._data :
                      n \notin DOMAIN r.self._data
                          \/ r.self._data[n] # self._data[n]]

\* the history of a proxy nobody has called yet
Constructed ==
    [op |-> "__init__", name |-> "", raised |-> "", sent |-> <<>>,
     wasLoaded |-> FALSE, wasKnown |-> FALSE, wasExtra |-> FALSE,
     value |-> <<>>, changed |-> FALSE, clobbered |-> FALSE]

InitProxy ==
    /\ kind \in Kinds
    /\ \E minimal \in BOOLEAN, opts \in SUBSET OPTIONALS(kind), links \in BOOLEAN :
          /\ created = [url |-> Location, minimal |-> minimal]
          /\ obj = IF minimal
                   THEN __init__(kind, Location, EmptyDict)
                   ELSE __init__(kind, Location,
                            Without(Document(kind, "a", opts, links), "url"))
    /\ lastOp = Constructed
    /\ phase = [name |-> "new", gets |-> 0, done |-> 0]

Failure == [raises |-> "WeblateException", json |-> EmptyDict]

\* The replies a call has to be tried with: a call that sends nothing when
\* its first GET would fail sends nothing at all, and its result does not
\* depend on the reply.
Asked(probe) == IF probe.sent = <<>> THEN {Failure} ELSE RepliesOf[kind]

\* phase: a run of calls of one method ("__getattr__" of schema fields with
\* a working transport, or "ensure_loaded") is followed while it lasts
Counted(op, name, r) ==
    /\ phase.name \in {"new", op}
    /\ phase.gets + Len(r.sent) <= MaxGets
    /\ \/ op = "ensure_loaded"
       \/ /\ op = "__getattr__"
          /\ name \in Range(PARAMS(kind))
          /\ r.raised \in {"", "AttributeError"}

Call(op, name, r) ==
    /\ obj' = r.self
    /\ lastOp' = Did(op, name, obj, r)
    /\ phase' = IF Counted(op, name, r)
                THEN [name |-> op, gets |-> phase.gets + Len(r.sent),
                      done |-> IF r.sent # <<>> /\ r.raised # Failure.raises
                               THEN phase.done + 1 ELSE phase.done]
                ELSE [name |-> "mixed", gets |-> 0, done |-> 0]
    /\ UNCHANGED <<kind, created, listing, gen, wire, calls, http>>
    /\ UNCHANGED <<facade, weblate, io, cli>>
    /\ UNCHANGED <<server, nested>>

\* obj.name / obj[name]
Read(name) ==
    \E reply \in Asked(__getattr__(kind, obj, name, Failure)) :
        /\ Call("__getattr__", name, __getattr__(kind, obj, name, reply))

EnsureLoaded(attrib) ==
    \E reply \in Asked(ensure_loaded(kind, obj, attrib, Failure)) :
        /\ Call("ensure_loaded", attrib, ensure_loaded(kind, obj, attrib, reply))

Refresh ==
    \E reply \in RepliesOf[kind] :
        /\ Call("refresh", "", refresh(kind, obj, reply))

SetAttrValue(name) ==
    /\ Call("setattrvalue", name,
            setattrvalue(kind, obj, name, SetValue(kind, name)))

Keys ==
    \E reply \in Asked(keys(kind, obj, Failure)) :
        /\ Call("keys", "", keys(kind, obj, reply))

Items ==
    \E reply \in Asked(items(kind, obj, Failure)) :
        /\ Call("items", "", items(kind, obj, reply))

ToValue ==
    \E reply \in Asked(to_value(kind, obj, Failure)) :
        /\ Call("to_value", ID(kind), to_value(kind, obj, reply))

RepoPost(operation) ==
    /\ kind \in RepoObjects \cup {"ProjectRepository", "Repository"}
    /\ \E reply \in Asked(_get_repo_url(kind, obj, Failure)),
          post_raises \in {"", "WeblateException"} :
        /\ Call(operation, "repository_url",
                repo_post(kind, obj, operation, reply, post_raises))

Delete ==
    /\ kind \in Deletable
    /\ \E delete_raises \in {"", "WeblateException"} :
        /\ Call("delete", "", delete(kind, obj, delete_raises))

NextProxy ==
    \/ \E name \in ReadNamesOf[kind] : Read(name)
    \/ \E attrib \in EnsureNamesOf[kind] : EnsureLoaded(attrib)
    \/ Refresh
    \/ \E name \in SetNamesOf[kind] : SetAttrValue(name)
    \/ Keys
    \/ Items
    \/ ToValue
    \/ \E operation \in RepoOperations : RepoPost(operation)
    \/ Delete

-----------------------------------------------------------------------------
(* Weblate.list_factory: the generator behind every list_* method.  The    *)
(* server holds a listing of pages chained by their "next" links; a path   *)
(* is the number of a page, and NoPath is the null that ends the chain.    *)

\* the longest chain of pages the server holds
MaxPages == 3
\* the list calls one consumer makes
MaxCalls == 2

NoPath == 0
FirstPath == 1

\* the "results" arrays a page may hold
PageShapes == {<<>>, <<"x">>, <<"x", "y">>}

Listings == UNION {[1..n -> PageShapes] : n \in 1..MaxPages}

\* the JSON of one page
ServerPage(srv, path) ==
    [results |-> srv[path],
     next |-> IF path < Len(srv) THEN path + 1 ELSE NoPath]

NoData == [results |-> <<>>, next |-> NoPath]

\* parser(weblate=self, **item): the proxy built from one item of a page
parser(item) == <<"LazyObject", item>>

\* a get that answers a path it has fetched before from a cache
get_cached(path, sent, srv, bad) ==
    [sent |-> IF path \in Range(sent) THEN sent ELSE Append(sent, path),
     raised |-> IF path = bad THEN "WeblateException" ELSE "",
     data |-> IF path = bad THEN NoData ELSE ServerPage(srv, path)]

\* Weblate.get(path) with its effect on the wire; the GET of path bad fails
get(path, sent, srv, bad) ==
    [sent |-> Append(sent, path),
     raised |-> IF path = bad THEN "WeblateException" ELSE "",
     data |-> IF path = bad THEN NoData ELSE ServerPage(srv, path)]

\* calling list_factory runs none of its body: the frame waits at its start
list_factory(path) == [pc |-> "created", path |-> path, data |-> NoData, i |-> 0]

Finished(frame) == [frame EXCEPT !.pc = "done"]

\* "while path is not None", run from its test to the next yield or the end
RECURSIVE while_path(_, _, _, _, _)
while_path(frame, path, sent, srv, bad) ==
    IF path = NoPath
    THEN [frame |-> Finished(frame), sent |-> sent,
          raised |-> "StopIteration", out |-> None]
    ELSE LET g == get(path, sent, srv, bad)
         IN  IF g.raised # ""
             THEN [frame |-> Finished(frame), sent |-> g.sent,
                   raised |-> g.raised, out |-> None]
             ELSE IF Len(g.data.results) > 0
                  THEN [frame |-> [pc |-> "yielded", path |-> path,
                                   data |-> g.data, i |-> 1],
                        sent |-> g.sent, raised |-> "",
                        out |-> parser(g.data.results[1])]
                  ELSE while_path(frame, g.data.next, g.sent, srv, bad)

\* a generator that asks for the next page while items of the page it
\* holds are still to be delivered
next_item_ahead(frame, sent, srv, bad) ==
    IF frame.pc = "yielded" /\ frame.i < Len(frame.data.results)
    THEN [frame |-> [frame EXCEPT !.i = frame.i + 1],
          sent |-> IF frame.data.next # NoPath
                   THEN Append(sent, frame.data.next) ELSE sent,
          raised |-> "", out |-> parser(frame.data.results[frame.i + 1])]
    ELSE while_path(frame,
                    IF frame.pc = "yielded" THEN frame.data.next
                    ELSE frame.path,
                    sent, srv, bad)

\* a generator that leaves the page before its last item
next_item_short(frame, sent, srv, bad) ==
    IF frame.pc = "yielded" /\ frame.i + 1 < Len(frame.data.results)
    THEN [frame |-> [frame EXCEPT !.i = frame.i + 1], sent |-> sent,
          raised |-> "", out |-> parser(frame.data.results[frame.i + 1])]
    ELSE while_path(frame,
                    IF frame.pc = "yielded" THEN frame.data.next
                    ELSE frame.path,
                    sent, srv, bad)

\* next(generator): resume the frame where it waits
next_item(frame, sent, srv, bad) ==
    IF frame.pc = "yielded" /\ frame.i < Len(frame.data.results)
    THEN [frame |-> [frame EXCEPT !.i = frame.i + 1], sent |-> sent,
          raised |-> "", out |-> parser(frame.data.results[frame.i + 1])]
    ELSE while_path(frame,
                    IF frame.pc = "yielded" THEN frame.data.next
                    ELSE frame.path,
                    sent, srv, bad)

NoGenerator == [pc |-> "none", path |-> NoPath, data |-> NoData, i |-> 0]

InitPager ==
    /\ listing \in Listings
    /\ gen = NoGenerator
    /\ wire = <<>>
    /\ calls = <<>>

\* weblate.list_projects() and the like; the consumer lists again only
\* after it has consumed the listing before to its end
ListCall ==
    /\ Len(calls) < MaxCalls
    /\ \/ gen.pc = "none"
       \/ gen.pc = "done" /\ calls[Len(calls)].ended = "StopIteration"
    /\ gen' = list_factory(FirstPath)
    /\ calls' = Append(calls, [gets |-> <<>>, items |-> <<>>, ended |-> ""])
    /\ UNCHANGED <<wire, listing, kind, obj, created, lastOp, phase, http>>
    /\ UNCHANGED <<facade, weblate, io, cli>>
    /\ UNCHANGED <<server, nested>>

\* the consumer asks the generator for its next item
NextItem ==
    /\ gen.pc \in {"created", "yielded"}
    /\ \E bad \in {NoPath} \cup DOMAIN listing :
        LET r == next_item(gen, wire, listing, bad)
        IN  /\ gen' = r.frame
            /\ wire' = r.sent
            /\ calls' = [calls EXCEPT ![Len(calls)] =
                  [gets |-> @.gets \o SubSeq(r.sent, Len(wire) + 1, Len(r.sent)),
                   items |-> IF r.raised = "" THEN Append(@.items, r.out)
                             ELSE @.items,
                   ended |-> r.raised]]
    /\ UNCHANGED <<listing, kind, obj, created, lastOp, phase, http>>
    /\ UNCHANGED <<facade, weblate, io, cli>>
    /\ UNCHANGED <<server, nested>>

NextPager ==
    \/ ListCall
    \/ NextItem

-----------------------------------------------------------------------------
(* The transport: Weblate.invoke_request, process_error, request and       *)
(* raw_request.  A response is its status code, its reason phrase, the     *)
(* two rate-limit headers ("" when absent) and its body.  A body is        *)
(* <<"text">> (not JSON), <<"object">> (a JSON object without "detail"),   *)
(* <<"object", d>> (a JSON object whose "detail" is d) or <<"array">> (a   *)
(* JSON value that is not an object).  An exception is its class and the   *)
(* pieces its message is put together from.                                *)

Statuses == {200, 201, 400, 401, 403, 404, 429, 500, 510}
Bodies == {<<"text">>, <<"object">>, <<"object", "Can not create components">>, <<"array">>}
LimitHeaders == {"", "100"}
RetryHeaders == {"", "81818"}

Responses ==
    [status_code : Statuses, reason : {"reason"}, body : Bodies,
     limit : LimitHeaders, retry : RetryHeaders]

Raise(class, message) == [raised |-> class, message |-> message]
Return(value) == [raised |-> "", message |-> value]

\* Exception.__init__(message or self.__doc__)
WeblateException(class, message) ==
    IF message # <<>> THEN Raise(class, message)
    ELSE Raise(class,
            CASE class = "WeblateThrottlingError" -> <<"Throttling on the server.">>
              [] class = "WeblatePermissionError" ->
                    <<"You don't have permission to access this object.">>
              [] class = "WeblateDeniedError" ->
                    <<"Access denied, API key is wrong or missing.">>
              [] OTHER -> <<"Generic error.">>)

\* the classes derived from WeblateException
WeblateExceptions ==
    {"WeblateException", "WeblateThrottlingError", "WeblatePermissionError",
     "WeblateDeniedError"}

\* response.json(): the parsed body, or ValueError
json(response) ==
    IF response.body = <<"text">> THEN Raise("ValueError", <<>>)
    ELSE Return(response.body)

\* str(response.json())
str(value) == <<"str of">> \o value

\* response.raise_for_status()
raise_for_status(response) ==
    IF response.status_code >= 400 /\ response.status_code < 600
    THEN Raise("HTTPError", <<>>) ELSE Return(<<>>)

\* error.response.json()["detail"], None on JSONDecodeError and KeyError
permission_error_message(response) ==
    LET parsed == json(response)
    IN  IF parsed.raised # "" THEN Return(<<>>)
        ELSE IF parsed.message[1] # "object" THEN Raise("TypeError", <<>>)
        ELSE IF Len(parsed.message) < 2 THEN Return(<<>>)
        ELSE Return(<<parsed.message[2]>>)

\* process_error(error) for the HTTPError of a response
process_error(response) ==
    LET status_code == response.status_code
    IN  CASE status_code = 429 -> WeblateException("WeblateThrottlingError", <<>>)
          [] status_code = 404 ->
                WeblateException("WeblateException",
                    <<"Object not found on the server (maybe operation is not supported on the server)">>)
          [] status_code = 403 ->
                LET detail == permission_error_message(response)
                IN  IF detail.raised # "" THEN detail
                    ELSE WeblateException("WeblatePermissionError", detail.message)
          [] status_code = 401 -> WeblateException("WeblateDeniedError", <<>>)
          [] OTHER ->
                LET parsed == json(response)
                    error_string == IF parsed.raised # "" THEN <<"">>
                                    ELSE str(parsed.message)
                IN  WeblateException("WeblateException",
                        <<"HTTP error", ToString(status_code), response.reason>>
                            \o error_string)

\* invoke_request: the response, or what process_error raises for it
invoke_request(response) ==
    IF raise_for_status(response).raised # ""
    THEN process_error(response)
    ELSE Return(response.body)

\* raw_request: response.content
raw_request(response) == invoke_request(response)

\* request: response.json()
request(response) ==
    LET r == invoke_request(response)
    IN  IF r.raised # "" THEN r
        ELSE IF json(response).raised # ""
             THEN WeblateException("WeblateException", <<"Server returned invalid JSON">>)
             ELSE Return(json(response).message)

Idle == [call |-> "", response |-> [status_code |-> 0], outcome |-> Return(<<>>)]

InitTransport == http = Idle

\* one call of request() or raw_request() and the response the server gives
Exchange ==
    /\ \E call \in {"request", "raw_request"}, response \in Responses :
          http' = [call |-> call, response |-> response,
                   outcome |-> IF call = "request" THEN request(response)
                               ELSE raw_request(response)]
    /\ UNCHANGED <<kind, obj, created, lastOp, phase, listing, gen, wire, calls>>
    /\ UNCHANGED <<facade, weblate, io, cli>>
    /\ UNCHANGED <<server, nested>>

NextTransport == Exchange

-----------------------------------------------------------------------------
(* The facade: Weblate.get_object and Weblate.create_component.  A path is *)
(* a string, modelled as the sequence of its characters over an alphabet   *)
(* of the slash, a letter and a digit.  A call is followed down to the     *)
(* requests it hands to Weblate.get / Weblate.post; each of them is        *)
(* answered ("") or raises an exception of the class given.                *)

\* the longest path that is resolved
MaxPath == 7

Alphabet == {"/", "a", "1"}
Paths == UNION {[1..n -> Alphabet] : n \in 0..MaxPath}

\* what a request may end with: an answer (""), the WeblateException of
\* process_error, a RequestException that is no HTTPError (test_base.py
\* raise_error), one that is also a ValueError (requests' InvalidHeader,
\* InvalidURL, ...) and an exception that is no RequestException at all
Faults ==
    {"", "WeblateException", "RequestException", "InvalidHeader",
     "FileNotFoundError"}

\* the classes "except ValueError" catches
ValueErrors == {"ValueError", "InvalidHeader"}

RECURSIVE lstrip(_, _)
lstrip(s, chars) ==
    IF s # <<>> /\ Head(s) = chars THEN lstrip(Tail(s), chars) ELSE s

RECURSIVE rstrip(_, _)
rstrip(s, chars) ==
    IF s # <<>> /\ s[Len(s)] = chars
    THEN rstrip(SubSeq(s, 1, Len(s) - 1), chars) ELSE s

\* str.strip(chars)
strip(s, chars) == rstrip(lstrip(s, chars), chars)

\* str.split(sep): the pieces between the separators, empty ones included
RECURSIVE split(_, _)
split(s, sep) ==
    IF \A i \in DOMAIN s : s[i] # sep THEN <<s>>
    ELSE LET i == CHOOSE i \in DOMAIN s :
                      s[i] = sep /\ \A j \in 1..(i - 1) : s[j] # sep
         IN  <<SubSeq(s, 1, i - 1)>> \o split(SubSeq(s, i + 1, Len(s)), sep)

\* int(path): over this alphabet, a number iff one or more digits
int(path) ==
    IF path # <<>> /\ \A i \in DOMAIN path : path[i] = "1"
    THEN Return(path) ELSE Raise("ValueError", <<>>)

\* "/".join((prefix, path, ""))
join(prefix, path) == <<prefix, "/">> \o path \o <<"/">>

Done(sent, raised, value) == [sent |-> sent, raised |-> raised, value |-> value]

\* _get_factory(prefix, path, parser): one GET, then parser(**data)
_get_factory(prefix, path, parser_class, reply) ==
    Done(<<Request("GET", join(prefix, path))>>, reply,
         IF reply = "" THEN <<parser_class>> ELSE <<>>)

get_project(path, reply) == _get_factory("projects", path, "Project", reply)
get_component(path, reply) == _get_factory("components", path, "Component", reply)
get_translation(path, reply) == _get_factory("translations", path, "Translation", reply)
get_unit(path, reply) == _get_factory("units", path, "Unit", reply)

\* get_object(path); replies[i] is what the i-th request of the call ends with
get_object(path, replies) ==
    LET parts == split(strip(path, "/"), "/")
        tried == IF int(path).raised = ""
                 THEN get_unit(path, replies[1])
                 ELSE Done(<<>>, "ValueError", <<>>)
        reply == replies[Len(tried.sent) + 1]
        after == CASE Len(parts) = 3 -> get_translation(path, reply)
                   [] Len(parts) = 2 -> get_component(path, reply)
                   [] Len(parts) = 1 -> get_project(path, reply)
                   [] OTHER -> Done(<<>>, "ValueError", <<"Not supported path">>)
    IN  IF tried.raised \notin ValueErrors THEN tried
        ELSE Done(tried.sent \o after.sent, after.raised, after.value)

\* a call about to be made: its arguments and what its requests will end
\* with; a reply that is never asked for is ""
Calling(call, args, replies, r) ==
    [call |-> call, args |-> args,
     replies |-> [i \in DOMAIN replies |->
                     IF i > Len(r.sent) THEN "" ELSE replies[i]],
     returned |-> FALSE, sent |-> <<>>, raised |-> "", value |-> <<>>]

FacadeIdle == Calling("", <<>>, <<>>, Done(<<>>, "", <<>>))

Returned(r) ==
    /\ ~facade.returned
    /\ facade' = [facade EXCEPT !.returned = TRUE, !.sent = r.sent,
                                !.raised = r.raised, !.value = r.value]
    /\ UNCHANGED <<kind, obj, created, lastOp, phase, listing, gen, wire, calls, http>>
    /\ UNCHANGED <<weblate, io, cli>>
    /\ UNCHANGED <<server, nested>>

\* weblate.get_object(path)
GetObject ==
    /\ facade.call = "get_object"
    /\ Returned(get_object(facade.args, facade.replies))

\* the fields a caller passes to create_component: the required ones, the
\* two file uploads and one more field of the component
required_keys == <<"name", "slug", "file_format", "filemask", "repo">>
FileAttrs == {"docfile", "zipfile"}
ComponentFields == Range(required_keys) \cup FileAttrs \cup {"vcs"}

Projects == {<<"a">>, <<"1">>}

\* the value the caller passes for a field
Given(key) == <<"value of", key>>
Kwargs == {[key \in fields |-> Given(key)] : fields \in SUBSET ComponentFields}

\* Weblate.post(path, files=files, **kwargs): one POST through request()
post(path, files, kwargs, reply) ==
    Done(<<[method |-> "POST", path |-> path, files |-> files, data |-> kwargs]>>,
         reply, IF reply = "" THEN <<"json">> ELSE <<>>)

\* a create_component that checks the required fields only when no file
\* is uploaded
create_component_unless_files(project, kwargs, reply) ==
    LET files == [key \in DOMAIN kwargs \cap FileAttrs |-> kwargs[key]]
        popped == [key \in DOMAIN kwargs \ FileAttrs |-> kwargs[key]]
        absent == {i \in DOMAIN required_keys : required_keys[i] \notin DOMAIN popped}
    IN  IF absent # {} /\ DOMAIN files = {}
        THEN LET i == CHOOSE i \in absent : \A j \in absent : i <= j
             IN  Done(<<>>, "WeblateException", <<required_keys[i], "is required.">>)
        ELSE post(<<"projects", "/">> \o project \o <<"/", "components", "/">>,
                  files, popped, reply)

\* create_component(project, **kwargs)
create_component(project, kwargs, reply) ==
    LET files == [key \in DOMAIN kwargs \cap FileAttrs |-> kwargs[key]]
        popped == [key \in DOMAIN kwargs \ FileAttrs |-> kwargs[key]]
        absent == {i \in DOMAIN required_keys : required_keys[i] \notin DOMAIN popped}
    IN  IF absent # {}
        THEN LET i == CHOOSE i \in absent : \A j \in absent : i <= j
             IN  Done(<<>>, "WeblateException", <<required_keys[i], "is required.">>)
        ELSE post(<<"projects", "/">> \o project \o <<"/", "components", "/">>,
                  files, popped, reply)

\* weblate.create_component(project, **kwargs)
CreateComponent ==
    /\ facade.call = "create_component"
    /\ Returned(create_component(facade.args[1], facade.args[2], facade.replies[1]))

\* the calls a user of the facade makes
InitFacade ==
    \/ \E path \in Paths, first \in Faults, second \in Faults :
          facade = Calling("get_object", path, <<first, second>>,
                           get_object(path, <<first, second>>))
    \/ \E project \in Projects, kwargs \in Kwargs, reply \in Faults :
          facade = Calling("create_component", <<project, kwargs>>, <<reply>>,
                           create_component(project, kwargs, reply))

NextFacade ==
    \/ GetObject
    \/ CreateComponent

-----------------------------------------------------------------------------
(* The configuration (wlc/config.py) and the construction of the Weblate   *)
(* object.  A URL is the sequence of its pieces: the scheme, "://", the    *)
(* pieces of the network location, and the pieces of the path.  An option  *)
(* of the configuration is None, a number set by set_defaults              *)
(* (<<"int", n>>), or text read from a file (<<"text", ...>>); the only    *)
(* text with a fraction is "0.2".  A backoff factor is held in tenths.     *)

API_URL == <<"http", "://", "127.0.0.1", ":8000", "/", "api", "/">>
USER_AGENT == "wlc/1.13"
LOCALHOST_NETLOC == "127.0.0.1"

\* the servers a user points the client at
BaseUrls ==
    {API_URL,
     <<"https", "://", "127.0.0.1", "/", "api">>,
     <<"https", "://", "127.0.0.1", ".example.com", "/", "api", "/">>,
     <<"https", "://", "example.com", "/", "api", "/">>,
     <<"http", "://", "example.com", "/", "api", "/">>}

Int(n) == <<"int", n>>
Text(t) == <<"text", t>>

\* the number a text of digits spells
Number(digits) ==
    CASE digits = "0" -> 0
      [] digits = "3" -> 3
      [] digits = "30" -> 30
      [] digits = "429" -> 429
      [] digits = "500" -> 500
      [] digits = "999" -> 999

\* int(value): of a number the number, of text the number it spells
int_of(value) == IF value[1] = "int" THEN value[2] ELSE Number(value[2])
\* float(value), in tenths
float_of(value) == IF value[1] = "int" THEN 10 * value[2] ELSE 2

\* WeblateConfig.set_defaults: the options of the section, and [keys]
set_defaults ==
    [section |->
        [key |-> "", url |-> API_URL, retries |-> Int(0), timeout |-> Int(30),
         status_forcelist |-> None,
         method_whitelist |-> <<"HEAD\nTRACE\nDELETE\nOPTIONS\nPUT\nGET">>,
         backoff_factor |-> Int(0)],
     keys |-> [u \in {} |-> ""]]

\* RawConfigParser.read / set: the options given replace those held
read(config, file) ==
    [section |-> [o \in DOMAIN config.section |->
                     IF o \in DOMAIN file.section THEN file.section[o]
                     ELSE config.section[o]],
     keys |-> [u \in DOMAIN config.keys \cup DOMAIN file.keys |->
                     IF u \in DOMAIN file.keys THEN file.keys[u]
                     ELSE config.keys[u]]]

\* WeblateConfig.load(path)
load(config, file) == read(config, file)

\* WeblateConfig.get_url_key
get_url_key(config) ==
    LET url == config.section.url
        key == config.section.key
    IN  IF key # "" THEN <<url, key>>
        ELSE IF url \in DOMAIN config.keys THEN <<url, config.keys[url]>>
        ELSE <<url, "">>

\* WeblateConfig.get_request_options
get_request_options(config) ==
    LET retries == int_of(config.section.retries)
        timeout == int_of(config.section.timeout)
        status_forcelist ==
            IF config.section.status_forcelist = None THEN None
            ELSE LET options == split(config.section.status_forcelist, ",")
                 IN  [i \in DOMAIN options |-> int_of(Text(options[i][1]))]
        method_whitelist == split(config.section.method_whitelist, ",")
        backoff_factor == float_of(config.section.backoff_factor)
    IN  <<retries, status_forcelist, method_whitelist, backoff_factor, timeout>>

\* urllib3's Retry(total=..., ...)
Retry(total, backoff_factor, status_forcelist, allowed_methods, raise_on_status) ==
    [total |-> total, backoff_factor |-> backoff_factor,
     status_forcelist |-> status_forcelist,
     allowed_methods |-> allowed_methods, raise_on_status |-> raise_on_status]

\* HTTPAdapter(max_retries=n) for a number n: Retry.from_int(n), a Retry
\* with the defaults of the library for everything but the total
from_int(n) ==
    Retry(n, 0, None, <<<<"DEFAULT_ALLOWED_METHODS">>>>, TRUE)

HTTPAdapter(max_retries) == [pool_connections |-> 1, max_retries |-> from_int(max_retries)]

\* Weblate.__init__
Weblate(key, url, config, retries, status_forcelist, method_whitelist, backoff_factor, timeout) ==
    LET options == get_request_options(config[2])
        self == IF config # None
                THEN [url |-> get_url_key(config[2])[1],
                      key |-> get_url_key(config[2])[2],
                      retries |-> options[1], status_forcelist |-> options[2],
                      method_whitelist |-> options[3],
                      backoff_factor |-> options[4], timeout |-> options[5]]
                ELSE [url |-> url, key |-> key, retries |-> retries,
                      status_forcelist |-> status_forcelist,
                      method_whitelist |->
                          IF method_whitelist # None THEN method_whitelist
                          ELSE <<<<"HEAD">>, <<"GET">>, <<"PUT">>, <<"PATCH">>,
                                 <<"DELETE">>, <<"OPTIONS">>, <<"TRACE">>>>,
                      backoff_factor |-> backoff_factor, timeout |-> timeout]
    IN  [self EXCEPT
            !.retries = Retry(self.retries, self.backoff_factor,
                              self.status_forcelist, self.method_whitelist, FALSE),
            !.url = IF self.url[Len(self.url)] = "/" THEN self.url
                    ELSE Append(self.url, "/")]
            @@ [adapter |-> HTTPAdapter(retries)]

\* urlparse(path): the scheme and the network location
urlparse(path) ==
    LET absolute == Len(path) >= 2 /\ path[2] = "://"
        ends == {i \in 3..Len(path) : path[i] = "/"}
        stop == IF ends = {} THEN Len(path) + 1
                ELSE CHOOSE i \in ends : \A j \in ends : i <= j
    IN  [scheme |-> IF absolute THEN path[1] ELSE "",
         netloc |-> IF absolute THEN SubSeq(path, 3, stop - 1) ELSE <<>>]

\* str.startswith of a string held in pieces, for a prefix that is a piece
startswith(s, prefix) == s # <<>> /\ s[1] = prefix

_should_verify_ssl(path) ==
    LET url == urlparse(path)
        is_localhost == startswith(url.netloc, LOCALHOST_NETLOC)
    IN  url.scheme = "https" /\ ~is_localhost

\* headers that carry a token whether or not a key is set
headers_with_token(self) ==
    [h \in {"user-agent", "Accept", "Authorization"} |->
        CASE h = "user-agent" -> <<USER_AGENT>>
          [] h = "Accept" -> <<"application/json">>
          [] OTHER -> <<"Token", self.key>>]

\* the headers invoke_request builds
headers(self) ==
    LET plain == [h \in {"user-agent", "Accept"} |->
                     IF h = "user-agent" THEN <<USER_AGENT>>
                     ELSE <<"application/json">>]
    IN  IF self.key # ""
        THEN plain @@ [h \in {"Authorization"} |-> <<"Token", self.key>>]
        ELSE plain

\* invoke_request up to self.session.request(method, path, **kwargs): the
\* adapter it mounts and the arguments it passes
session_request(self, method, path, data, files) ==
    LET full == IF path # <<>> /\ path[1] \in {"http", "https"} THEN path
                ELSE self.url \o path
    IN  [method |-> method, path |-> full, headers |-> headers(self),
         verify |-> _should_verify_ssl(full), files |-> files,
         body |-> IF files # <<>> THEN <<"data", data>> ELSE <<"json", data>>,
         timeout |-> self.timeout,
         mount |-> [prefix |-> <<urlparse(full).scheme, "://">>,
                    adapter |-> self.adapter]]

\* no request made yet
NoRequest == [method |-> ""]

\* the configuration files users write: a key in the section or not, the
\* url, the request options, and the [keys] section
ConfigFiles ==
    {[section |-> key @@ url @@ options, keys |-> auth] :
        key \in {<<>>, [o \in {"key"} |-> "SECRET"]},
        url \in {<<>>, [o \in {"url"} |-> <<"https", "://", "example.com", "/", "api", "/">>]},
        options \in {<<>>,
                     [retries |-> Text("999"),
                      status_forcelist |-> <<"429", ",", "500">>,
                      method_whitelist |-> <<"PUT", ",", "POST">>,
                      backoff_factor |-> Text("0.2")]},
        auth \in {<<>>,
                  [u \in {API_URL} |-> "KEY"],
                  [u \in {<<"https", "://", "example.com", "/", "api", "/">>} |-> "KEY"]}}

\* WeblateConfig(section) followed by load(path); the object is held in a
\* pair so that it can be told from None
Loaded(file) == <<"WeblateConfig", load(set_defaults, file)>>

\* the arguments Weblate() is constructed with: a configuration, as
\* main.py does, or the key, the url and the retry arguments
Constructions ==
    {[key |-> "", url |-> API_URL, config |-> Loaded(file), retries |-> retries,
      status_forcelist |-> None, method_whitelist |-> None,
      backoff_factor |-> 0, timeout |-> 30] :
        file \in ConfigFiles, retries \in {0, 3}}
    \cup
    {[key |-> key, url |-> url, config |-> None, retries |-> retries,
      status_forcelist |-> status_forcelist,
      method_whitelist |-> method_whitelist,
      backoff_factor |-> backoff_factor, timeout |-> 30] :
        key \in {"", "KEY"}, url \in BaseUrls, retries \in {0, 3},
        status_forcelist \in {None, <<429, 500>>},
        method_whitelist \in {None, <<<<"PUT">>, <<"POST">>>>},
        backoff_factor \in {0, 2}}

\* the object, and the arguments it was constructed with
InitSession ==
    /\ \E given \in Constructions :
          weblate = [given |-> given,
                     self |-> Weblate(given.key, given.url, given.config,
                                      given.retries, given.status_forcelist,
                                      given.method_whitelist,
                                      given.backoff_factor, given.timeout)]
    /\ io = NoRequest

\* the paths the facade, the pager and the proxies pass: relative to the
\* API, or the absolute URL of a link a document held
RequestPaths ==
    {<<"projects", "/">>} \cup {url \o <<"projects", "/">> : url \in BaseUrls \ {<<"https", "://", "127.0.0.1", "/", "api">>}}
        \cup {<<"https", "://", "127.0.0.1", "/">>}

\* one request of the object, whatever its method and target
InvokeRequest ==
    /\ \E method \in {"get", "post", "delete"}, path \in RequestPaths,
          files \in {<<>>, <<"docfile">>} :
          io' = session_request(weblate.self, method, path, <<"data">>, files)
    /\ UNCHANGED <<kind, obj, created, lastOp, phase, listing, gen, wire, calls, http>>
    /\ UNCHANGED <<facade, weblate, cli>>
    /\ UNCHANGED <<server, nested>>

NextSession == InvokeRequest

-----------------------------------------------------------------------------
(* The command line (main.py).  A run of main is given the arguments --key *)
(* and --url (None when absent), the configuration file found, and what    *)
(* command.run() does: it returns ("") or raises an exception of the       *)
(* named class.  A configuration can also be loaded on its own.            *)

\* the classes of requests.exceptions derived from RequestException
RequestExceptions == {"RequestException", "ConnectionError", "InvalidHeader"}

\* what command.run() can end in
Outcomes ==
    {"", "CommandError", "FileNotFoundError"} \cup WeblateExceptions \cup RequestExceptions

\* the command lines: --key and --url, given or not
Arguments ==
    [key : {None, Str("ARGKEY")},
     url : {None, Str(<<"https", "://", "example.com", "/", "api", "/">>)}]

\* no command has been run and no configuration loaded
NoRun == [call |-> ""]

\* config.set(section, option, value) in the main section
set(config, option, value) ==
    [config EXCEPT !.section = [o \in DOMAIN @ |-> IF o = option THEN value ELSE @[o]]]

\* parse_settings(args, None)
parse_settings(args, file) ==
    LET config == load(set_defaults, file)
        keyed == IF args.key # None THEN set(config, "key", args.key[2]) ELSE config
    IN  IF args.url # None THEN set(keyed, "url", args.url[2]) ELSE keyed

\* what main leaves behind: its return code (none when an exception
\* leaves main), the exception that leaves it, and the lines on stderr
Exit(code, raised, stderr) == [code |-> code, raised |-> raised, stderr |-> stderr]

\* main whose handlers do not catch RequestException
main_without_request_handler(args, file, run) ==
    LET config == parse_settings(args, file)
        auth == get_url_key(config)
    IN  CASE run = "" -> Exit(<<0>>, "", <<>>)
          [] run = "WeblateDeniedError" -> Exit(<<1>>, "", <<<<"denied">>>>)
          [] run \in WeblateExceptions \cup {"CommandError"} ->
                Exit(<<1>>, "", <<<<"Error: ", run>>>>)
          [] OTHER -> Exit(<<>>, run, <<>>)

\* main(args): the configuration is parsed, the command constructed (and
\* with it its Weblate object) and run, and its exceptions handled
main(args, file, run) ==
    LET config == parse_settings(args, file)
        auth == get_url_key(config)
    IN  CASE run = "" -> Exit(<<0>>, "", <<>>)
          [] run = "WeblateDeniedError" ->
                IF auth[2] # ""
                THEN Exit(<<1>>, "",
                          <<<<"API key configured for ", auth[1], " was rejected by server.">>>>)
                ELSE Exit(<<1>>, "",
                          <<<<"Missing API key for ", auth[1], ".">>,
                            <<"The API key can be specified by --key or in the configuration file.">>>>)
          [] run \in RequestExceptions -> Exit(<<10>>, "", <<<<"Request failed: ", run>>>>)
          [] run \in WeblateExceptions \cup {"CommandError"} ->
                Exit(<<1>>, "", <<<<"Error: ", run>>>>)
          [] OTHER -> Exit(<<>>, run, <<>>)

\* a call that has not been made yet
Pending(call, args, file, run) ==
    [call |-> call, args |-> args, file |-> file, run |-> run, returned |-> FALSE,
     credential |-> "", exit |-> Exit(<<>>, "", <<>>)]

\* WeblateConfig().load(path), then the key it gives
LoadConfig ==
    /\ cli.call = "load"
    /\ ~cli.returned
    /\ cli' = [cli EXCEPT !.returned = TRUE,
                          !.credential = get_url_key(load(set_defaults, cli.file))[2]]
    /\ UNCHANGED <<kind, obj, created, lastOp, phase, listing, gen, wire, calls, http>>
    /\ UNCHANGED <<facade, weblate, io>>
    /\ UNCHANGED <<server, nested>>

\* one run of the command line
Main ==
    /\ cli.call = "main"
    /\ ~cli.returned
    /\ cli' = [cli EXCEPT
                  !.returned = TRUE,
                  !.credential =
                      Weblate("", API_URL, <<"WeblateConfig", parse_settings(cli.args, cli.file)>>,
                              0, None, None, 0, 30).key,
                  !.exit = main(cli.args, cli.file, cli.run)]
    /\ UNCHANGED <<kind, obj, created, lastOp, phase, listing, gen, wire, calls, http>>
    /\ UNCHANGED <<facade, weblate, io>>
    /\ UNCHANGED <<server, nested>>

\* the object paths given on the command line: none, a unit, one to
\* four segments
ObjectPaths ==
    {<<>>, <<"1">>, <<"a">>, <<"a", "/", "a">>, <<"a", "/", "a", "/", "a">>,
     <<"a", "/", "a", "/", "a", "/", "a">>}

\* Command.get_object(): the path of the command line, resolved
command_get_object(path, replies) ==
    IF path = <<>>
    THEN Done(<<>>, "CommandError", <<"No object passed on command-line!">>)
    ELSE get_object(path, replies)

\* a command on an object that has not been run yet
PendingCommand(path, file, replies) ==
    [call |-> "command",
     args |-> [key |-> None, url |-> None, object |-> path],
     file |-> file, run |-> "", returned |-> FALSE, credential |-> "",
     exit |-> Exit(<<>>, "", <<>>),
     replies |-> [i \in DOMAIN replies |->
                     IF i > Len(command_get_object(path, replies).sent) THEN ""
                     ELSE replies[i]],
     sent |-> <<>>]

\* one run of a command that takes an object: the object is resolved and
\* the command ends as get_object did
ObjectCommand ==
    /\ cli.call = "command"
    /\ ~cli.returned
    /\ LET r == command_get_object(cli.args.object, cli.replies)
       IN  cli' = [cli EXCEPT
                      !.returned = TRUE,
                      !.run = r.raised,
                      !.sent = r.sent,
                      !.credential =
                          get_url_key(parse_settings(cli.args, cli.file))[2],
                      !.exit = main(cli.args, cli.file, r.raised)]
    /\ UNCHANGED <<kind, obj, created, lastOp, phase, listing, gen, wire, calls, http>>
    /\ UNCHANGED <<facade, weblate, io, server, nested>>

\* the components the server holds, by the slug of their project and
\* their own
Components ==
    {[project |-> "hello", slug |-> "weblate"],
     [project |-> "other", slug |-> "weblate"],
     [project |-> "hello", slug |-> "android"]}

\* what list_components() can yield: the components, in any order
ComponentListings ==
    {l \in UNION {[1..n -> Components] : n \in 1..Cardinality(Components)} :
        \A i, j \in DOMAIN l : l[i] = l[j] => i = j}

\* download_component: the name of the file written
zip_name(component) == <<component.project, "-", component.slug, ".zip">>

\* Download.run for a component: the components downloaded, in order
download_run(component, listed) ==
    LET scoped(c) == component.slug = c.slug
    IN  SelectSeq(listed, scoped)

\* wlc download <project>/<component> --output <directory>, not run yet
PendingDownload(component, listed) ==
    [call |-> "download",
     args |-> [key |-> None, url |-> None, object |-> component],
     file |-> [section |-> <<>>, keys |-> <<>>],
     run |-> "", returned |-> FALSE, credential |-> "",
     exit |-> Exit(<<>>, "", <<>>), listed |-> listed,
     downloaded |-> <<>>, files |-> {}]

\* one run of the download command on a component the server holds
Download ==
    /\ cli.call = "download"
    /\ ~cli.returned
    /\ LET got == download_run(cli.args.object, cli.listed)
       IN  cli' = [cli EXCEPT
                      !.returned = TRUE,
                      !.downloaded = got,
                      !.files = {zip_name(got[i]) : i \in DOMAIN got},
                      !.exit = main(cli.args, cli.file, "")]
    /\ UNCHANGED <<kind, obj, created, lastOp, phase, listing, gen, wire, calls, http>>
    /\ UNCHANGED <<facade, weblate, io, server, nested>>

InitMain ==
    cli \in {Pending("load", [key |-> None, url |-> None], file, "") : file \in ConfigFiles}
            \cup {Pending("main", args, file, run) :
                    args \in Arguments, file \in ConfigFiles, run \in Outcomes}
            \cup {PendingCommand(path, file, replies) :
                    path \in ObjectPaths, file \in ConfigFiles,
                    replies \in {<<"", "">>, <<"WeblateException", "">>,
                                 <<"ConnectionError", "">>}}
            \cup UNION {{PendingDownload(l[i], l) : i \in DOMAIN l} :
                            l \in ComponentListings}

NextMain == LoadConfig \/ Main \/ ObjectCommand \/ Download

-----------------------------------------------------------------------------
(* The proxy and the resource behind it.  The server holds the resource    *)
(* until a DELETE of its location succeeds; it answers a request for a     *)
(* resource it holds with one of the documents of the kind (or refuses     *)
(* it), and a request for a resource it no longer holds with 404.  The     *)
(* answer goes through the transport before the proxy sees it.             *)

\* no resource is followed
NoServer == [exists |-> TRUE]

\* no mapped field is followed
NoNested == [param |-> ""]

\* a response of the server, without rate-limit headers
Response(status_code, body) ==
    [status_code |-> status_code, reason |-> "reason", body |-> body,
     limit |-> "", retry |-> ""]

\* Weblate.get(location): the document, or what the transport raises
get_location(response, document) ==
    LET r == request(response)
    IN  IF r.raised = ""
        THEN [raises |-> "", json |-> document, message |-> <<>>]
        ELSE [raises |-> r.raised, json |-> EmptyDict, message |-> r.message]

\* the answer to a call that sends nothing
Unasked == [raises |-> "WeblateException", json |-> EmptyDict, message |-> <<>>]

\* the answers a GET of the location can get
Answers(k, exists) ==
    IF exists
    THEN {get_location(Response(200, <<"object">>), d) : d \in Documents(k)}
            \cup {get_location(Response(403, <<"object", "denied">>), EmptyDict)}
    ELSE {get_location(Response(404, <<"object", "Not found.">>), EmptyDict)}

AnswersOf == [k \in Kinds |-> [exists \in BOOLEAN |-> Answers(k, exists)]]

\* the answers a call has to be tried with
Served(probe) == IF probe.sent = <<>> THEN {Unasked} ELSE AnswersOf[kind][server.exists]

\* the values setattrvalue is given: a proxy or a string
SetValues(k, n) == {SetValue(k, n), Str(MovedUrl)}

\* the proxy is called and the server remembers what it answered
Serve(op, name, r, reply, exists) ==
    /\ obj' = r.self
    /\ lastOp' = Did(op, name, obj, r)
    /\ server' = [exists |-> exists,
                  existed |-> server.exists,
                  reply |-> IF r.sent = <<>> THEN Unasked ELSE reply,
                  prev |-> obj,
                  stamped |-> IF op = "setattrvalue" /\ r.raised = ""
                              THEN server.stamped \cup {name}
                              ELSE server.stamped,
                  loads |-> server.loads
                              \/ (r.sent # <<>> /\ r.sent[1].method = "GET"
                                      /\ reply.raises = "")]
    /\ UNCHANGED <<kind, created, phase, listing, gen, wire, calls, http>>
    /\ UNCHANGED <<facade, weblate, io, cli, nested>>

ServedDelete ==
    /\ kind \in Deletable
    /\ \E status_code \in IF server.exists THEN {204, 403} ELSE {404} :
          LET answer == raw_request(Response(status_code, <<"object", "detail">>))
          IN  Serve("delete", "", delete(kind, obj, answer.raised),
                    [raises |-> answer.raised, json |-> EmptyDict,
                     message |-> IF answer.raised = "" THEN <<>> ELSE answer.message],
                    server.exists /\ status_code # 204)

ServedRefresh ==
    \E reply \in AnswersOf[kind][server.exists] :
        Serve("refresh", "", refresh(kind, obj, reply), reply, server.exists)

ServedRead(name) ==
    \E reply \in Served(__getattr__(kind, obj, name, Unasked)) :
        Serve("__getattr__", name, __getattr__(kind, obj, name, reply), reply,
              server.exists)

ServedEnsureLoaded(attrib) ==
    \E reply \in Served(ensure_loaded(kind, obj, attrib, Unasked)) :
        Serve("ensure_loaded", attrib, ensure_loaded(kind, obj, attrib, reply),
              reply, server.exists)

ServedKeys ==
    \E reply \in Served(keys(kind, obj, Unasked)) :
        Serve("keys", "", keys(kind, obj, reply), reply, server.exists)

ServedSetAttrValue(name) ==
    \E value \in SetValues(kind, name) :
        Serve("setattrvalue", name, setattrvalue(kind, obj, name, value),
              Unasked, server.exists)

-----------------------------------------------------------------------------
(* Mapped fields.  The server holds a document of the mapped kind under    *)
(* its url; a payload names it in a mapped field either by that url or by  *)
(* the document itself.  _load_params builds a nested proxy from either,   *)
(* and the owner of the nested proxy then makes it load.                   *)

\* the kinds that have a mapping table
Mapping == {k \in Kinds : DOMAIN MAPPINGS(k) # {}}

\* a nested proxy built from an object without going through _load_params
nested_unwrapped(k, param, value) ==
    IF isinstance_str(value)
    THEN __init__(MAPPINGS(k)[param], value[2], EmptyDict)
    ELSE [_url |-> value[2]["url"][2], _data |-> value[2],
          _attribs |-> EmptyDict, _loaded |-> FALSE]

\* MAPPINGS[param](self.weblate, url=value) for a string,
\* MAPPINGS[param](self.weblate, **value) for an object
nested_proxy(k, param, value) ==
    IF isinstance_str(value)
    THEN __init__(MAPPINGS(k)[param], value[2], EmptyDict)
    ELSE __init__(MAPPINGS(k)[param], value[2]["url"][2], Without(value[2], "url"))

\* what the owner does to a nested proxy to make it load
Forcings(k) ==
    {<<"refresh", "">>, <<"keys", "">>}
        \cup {<<"__getattr__", name>> : name \in ReadNames(k)}
        \cup {<<"ensure_loaded", attrib>> : attrib \in EnsureNames(k)}

\* one of these calls on a nested proxy, the server answering with held
force(k, self, call, held) ==
    LET reply == [raises |-> "", json |-> held]
    IN  CASE call[1] = "refresh" -> refresh(k, self, reply)
          [] call[1] = "keys" -> keys(k, self, reply)
          [] call[1] = "__getattr__" -> __getattr__(k, self, call[2], reply)
          [] OTHER -> ensure_loaded(k, self, call[2], reply)

\* the payload of a proxy of kind k names held in its field param
InitNested ==
    \E k \in Mapping :
        \E param \in DOMAIN MAPPINGS(k) :
            \E held \in Documents(MAPPINGS(k)[param]) :
                nested = [kind |-> k, param |-> param, held |-> held,
                          pc |-> "payload", call |-> <<"", "">>,
                          by_url |-> <<>>, inline |-> <<>>]

\* _load_params of the payload, with the field as a url and as an object
LoadParams ==
    /\ nested.pc = "payload"
    /\ nested' = [nested EXCEPT
          !.pc = "built",
          !.by_url = Result(nested_proxy(nested.kind, nested.param,
                                Str(nested.held["url"][2])), <<>>, "", None),
          !.inline = Result(nested_proxy(nested.kind, nested.param,
                                <<"dict", nested.held>>), <<>>, "", None)]
    /\ UNCHANGED <<kind, obj, created, lastOp, phase, listing, gen, wire, calls, http>>
    /\ UNCHANGED <<facade, weblate, io, cli, server>>

\* the owner makes both nested proxies load
Force ==
    /\ nested.pc = "built"
    /\ \E call \in Forcings(MAPPINGS(nested.kind)[nested.param]) :
          nested' = [nested EXCEPT
              !.pc = "forced",
              !.call = call,
              !.by_url = force(MAPPINGS(nested.kind)[nested.param],
                               nested.by_url.self, call, nested.held),
              !.inline = force(MAPPINGS(nested.kind)[nested.param],
                               nested.inline.self, call, nested.held)]
    /\ UNCHANGED <<kind, obj, created, lastOp, phase, listing, gen, wire, calls, http>>
    /\ UNCHANGED <<facade, weblate, io, cli, server>>

NextNested == LoadParams \/ Force

InitServed ==
    /\ InitProxy
    /\ server = [exists |-> TRUE, existed |-> TRUE, reply |-> Unasked,
                 prev |-> obj, stamped |-> {}, loads |-> FALSE]

NextServed ==
    \/ ServedDelete
    \/ ServedRefresh
    \/ \E name \in ReadNamesOf[kind] : ServedRead(name)
    \/ \E attrib \in EnsureNamesOf[kind] : ServedEnsureLoaded(attrib)
    \/ ServedKeys
    \/ \E name \in SetNamesOf[kind] : ServedSetAttrValue(name)

-----------------------------------------------------------------------------
(* The specifications: the proxy, the pager and the transport are checked  *)
(* one at a time, the other two at rest.                                   *)

ProxyAtRest ==
    /\ kind = "Language"
    /\ created = [url |-> Location, minimal |-> TRUE]
    /\ obj = __init__("Language", Location, EmptyDict)
    /\ lastOp = Constructed
    /\ phase = [name |-> "new", gets |-> 0, done |-> 0]

PagerAtRest ==
    /\ listing = <<>>
    /\ gen = NoGenerator
    /\ wire = <<>>
    /\ calls = <<>>

\* no Weblate object has been constructed and no command has been run
SessionAtRest == weblate = <<>> /\ io = NoRequest
MainAtRest == cli = NoRun
FacadeAtRest == facade = FacadeIdle
ServerAtRest == server = NoServer
NestedAtRest == nested = NoNested
OthersAtRest ==
    /\ FacadeAtRest /\ SessionAtRest /\ MainAtRest
    /\ ServerAtRest /\ NestedAtRest

Init == InitProxy /\ PagerAtRest /\ InitTransport /\ OthersAtRest

Spec == Init /\ [][NextProxy]_vars

InitList == ProxyAtRest /\ InitPager /\ InitTransport /\ OthersAtRest

SpecPager == InitList /\ [][NextPager]_vars

InitHttp == ProxyAtRest /\ PagerAtRest /\ InitTransport /\ OthersAtRest

SpecTransport == InitHttp /\ [][NextTransport]_vars

InitResolve ==
    /\ ProxyAtRest /\ PagerAtRest /\ InitTransport
    /\ InitFacade /\ SessionAtRest /\ MainAtRest
    /\ ServerAtRest /\ NestedAtRest

SpecFacade == InitResolve /\ [][NextFacade]_vars

InitClient ==
    /\ ProxyAtRest /\ PagerAtRest /\ InitTransport
    /\ FacadeAtRest /\ InitSession /\ MainAtRest
    /\ ServerAtRest /\ NestedAtRest

SpecSession == InitClient /\ [][NextSession]_vars

InitCommand ==
    /\ ProxyAtRest /\ PagerAtRest /\ InitTransport
    /\ FacadeAtRest /\ SessionAtRest /\ InitMain
    /\ ServerAtRest /\ NestedAtRest

SpecMain == InitCommand /\ [][NextMain]_vars

InitResource ==
    /\ InitServed /\ PagerAtRest /\ InitTransport
    /\ FacadeAtRest /\ SessionAtRest /\ MainAtRest /\ NestedAtRest

SpecServed == InitResource /\ [][NextServed]_vars

InitMapped ==
    /\ ProxyAtRest /\ PagerAtRest /\ InitTransport
    /\ FacadeAtRest /\ SessionAtRest /\ MainAtRest /\ ServerAtRest /\ InitNested

SpecNested == InitMapped /\ [][NextNested]_vars

-----------------------------------------------------------------------------
(* Properties of the proxy, checked under Spec.                            *)

\* a read of a schema field of the kind
SchemaRead == lastOp.op = "__getattr__" /\ lastOp.name \in Range(PARAMS(kind))

\* C1: on a proxy built from a minimal {url} payload, the reads of schema
\* fields (other than the url the payload gave) trigger exactly one refresh
\* between them: the first one GETs the location once, every later one
\* sends nothing.
C1_OneRefreshForAllReads ==
    (created.minimal /\ phase.name = "__getattr__" /\ lastOp.name # "url")
        => phase.gets = 1

\* C2: once the proxy is loaded, reading an optional schema field the
\* server left out of its response sends no GET and fails with
\* AttributeError.
C2_AbsentOptionalReadsNoRefresh ==
    (SchemaRead /\ lastOp.name \in OPTIONALS(kind) /\ lastOp.wasLoaded
            /\ ~lastOp.wasKnown)
        => (lastOp.sent = <<>> /\ lastOp.raised = "AttributeError")

\* C3: reading a name that is not in the schema of the kind fails with
\* AttributeError in every load state, sends no request and leaves the
\* proxy as it was.
C3_UnknownNameFails ==
    (lastOp.op = "__getattr__" /\ lastOp.name \notin Range(PARAMS(kind)))
        => (lastOp.raised = "AttributeError" /\ lastOp.sent = <<>>
                /\ ~lastOp.changed)

\* C3: a loaded proxy was asked for a non-schema name its extras hold
C3_Witness ==
    /\ lastOp.op = "__getattr__"
    /\ lastOp.name \notin Range(PARAMS(kind))
    /\ lastOp.wasLoaded
    /\ lastOp.wasExtra
    /\ lastOp.raised = "AttributeError"

\* C4 as stated: over a run of ensure_loaded calls on one proxy at most one
\* GET is caused by ensure_loaded.
C4_AtMostOneRefresh ==
    phase.name = "ensure_loaded" => phase.gets <= 1

\* C4 amended: ensure_loaded(name) sends nothing when name is in fields or
\* extras or the proxy is loaded, and sends exactly one GET otherwise; a
\* refresh whose GET fails leaves the proxy unloaded, so over a run of
\* ensure_loaded calls at most one refresh completes, every GET before it
\* failed and none follows it.
C4_EnsureLoadedOnce ==
    /\ lastOp.op = "ensure_loaded" =>
          Len(lastOp.sent) =
              IF lastOp.wasKnown \/ lastOp.wasExtra \/ lastOp.wasLoaded
              THEN 0 ELSE 1
    /\ phase.name = "ensure_loaded" =>
          /\ phase.done <= 1
          /\ phase.done = 1 <=> obj._loaded
          /\ (lastOp.wasLoaded /\ lastOp.op = "ensure_loaded") => lastOp.sent = <<>>

\* C4: a run of ensure_loaded calls whose first GET failed, whose second
\* completed, and whose last call, for a name that never appears, was a no-op
C4_Witness ==
    /\ phase.name = "ensure_loaded"
    /\ phase.gets = 2
    /\ phase.done = 1
    /\ lastOp.name = "missing"
    /\ lastOp.wasLoaded
    /\ lastOp.sent = <<>>

\* C5: a field present in the fields of the proxy keeps its value across
\* every call other than refresh() and setattrvalue(): reads,
\* ensure_loaded, keys, items, to_value, the repository operations and
\* delete.
C5_ResolvedFieldsKept ==
    lastOp.op \notin {"__init__", "refresh", "setattrvalue"}
        => ~lastOp.clobbered

\* C6: the location of the proxy is the one it was constructed with, and
\* every GET and DELETE the proxy sends goes to that location.
C6_LocationFixed ==
    /\ obj._url = created.url
    /\ \A i \in DOMAIN lastOp.sent :
          lastOp.sent[i].method \in {"GET", "DELETE"}
              => lastOp.sent[i].path = created.url

\* C6: a refresh (explicit or implied) was sent by a proxy whose url field
\* already carried the moved address
C6_Witness ==
    /\ lastOp.op \in {"refresh", "__getattr__", "ensure_loaded", "keys"}
    /\ lastOp.raised = "WeblateException"
    /\ Len(lastOp.sent) = 1
    /\ lastOp.sent[1] = Request("GET", Location)
    /\ "url" \in DOMAIN obj._data
    /\ obj._data["url"] = Str(MovedUrl)

-----------------------------------------------------------------------------
(* Properties of the listing generator, checked under SpecPager.           *)

\* the items of the pages srv[i..], concatenated in the order of the chain
RECURSIVE Concatenated(_, _)
Concatenated(srv, i) ==
    IF i > Len(srv) THEN <<>>
    ELSE [j \in 1..Len(srv[i]) |-> parser(srv[i][j])] \o Concatenated(srv, i + 1)

\* the paths of the pages of the chain, first to last
PagePaths(srv) == [i \in 1..Len(srv) |-> i]

Consumed(c) == calls[c].ended = "StopIteration"

\* C7: a list call never GETs more than one page per page of the chain nor
\* yields more than the chain holds, and when its sequence has been
\* consumed to the end it has yielded exactly the concatenation of the
\* results of every page in server order, has sent exactly one GET per
\* page, in the order of the chain, and its generator is finished.
C7_ConcatenationOfPages ==
    \A c \in DOMAIN calls :
        /\ Len(calls[c].gets) <= Len(listing)
        /\ Len(calls[c].items) <= Len(Concatenated(listing, 1))
        /\ Consumed(c) =>
              /\ calls[c].items = Concatenated(listing, 1)
              /\ calls[c].gets = PagePaths(listing)
              /\ c = Len(calls) => gen.pc = "done"

\* C7: a chain of three pages, one of them empty and two holding the same
\* item, was consumed to the end
C7_Witness ==
    /\ Len(listing) = 3
    /\ \E i \in DOMAIN listing : listing[i] = <<>>
    /\ \E i, j \in DOMAIN listing : i # j /\ listing[i] = <<"x", "y">> /\ listing[j] = <<"x">>
    /\ calls # <<>>
    /\ Consumed(1)
    /\ Len(calls[1].items) = 3

\* C8: every list call that was consumed to the end sent the GETs of pages
\* 1..N itself and yielded the items the first call yielded; when the
\* last of c calls has been consumed the wire has carried c * N GETs.
C8_ListingsNotCached ==
    \A c \in DOMAIN calls :
        Consumed(c) =>
            /\ calls[c].gets = PagePaths(listing)
            /\ calls[c].items = calls[1].items
            /\ c = Len(calls) => Len(wire) = c * Len(listing)

\* C8: a listing of two or more pages was consumed twice
C8_Witness ==
    /\ Len(calls) = 2
    /\ Consumed(1)
    /\ Consumed(2)
    /\ Len(listing) >= 2
    /\ calls[2].items # <<>>
    /\ Len(wire) = 2 * Len(listing)

-----------------------------------------------------------------------------
(* Properties of the transport, checked under SpecTransport.               *)

Contains(message, piece) == \E i \in DOMAIN message : message[i] = piece

\* C9: every response is classified by its status: 429 raises the
\* throttling error, 404 the not-found error, 403 the permission error
\* (with the detail of the JSON body in its message when there is one),
\* 401 the denied error, any other 4xx/5xx the generic error with the
\* status code in its message, a 2xx whose body is not JSON the
\* invalid-JSON error when JSON was asked for; an error status never ends
\* in a return nor in an exception outside the WeblateException classes.
C9_StatusClassification ==
    http.call # "" =>
        LET response == http.response
            outcome == http.outcome
            status_code == response.status_code
        IN  CASE status_code = 429 -> outcome.raised = "WeblateThrottlingError"
              [] status_code = 404 ->
                    /\ outcome.raised = "WeblateException"
                    /\ outcome.message[1] = "Object not found on the server (maybe operation is not supported on the server)"
              [] status_code = 403 ->
                    /\ outcome.raised = "WeblatePermissionError"
                    /\ Len(response.body) = 2 => Contains(outcome.message, response.body[2])
              [] status_code = 401 -> outcome.raised = "WeblateDeniedError"
              [] status_code >= 400 ->
                    /\ outcome.raised = "WeblateException"
                    /\ Contains(outcome.message, ToString(status_code))
              [] OTHER ->
                    IF http.call = "request" /\ response.body = <<"text">>
                    THEN outcome = Raise("WeblateException", <<"Server returned invalid JSON">>)
                    ELSE outcome = Return(response.body)

\* C10: the message of the throttling error raised for a 429 response that
\* carries X-RateLimit-Limit and Retry-After includes both values.
C10_ThrottlingHints ==
    (http.call # "" /\ http.response.status_code = 429
            /\ http.response.limit # "" /\ http.response.retry # "")
        => /\ http.outcome.raised = "WeblateThrottlingError"
           /\ Contains(http.outcome.message, http.response.limit)
           /\ Contains(http.outcome.message, http.response.retry)

-----------------------------------------------------------------------------
(* Properties of the facade, checked under SpecFacade.                     *)

\* C11: a request that ends with an exception other than the
\* WeblateException of an HTTP status (a RequestException that is no
\* HTTPError, or any other exception) ends the facade call that made it
\* with that very exception: it is the last request of the call and the
\* call raises what the request raised.
C11_FailuresReachTheCaller ==
    facade.returned =>
        \A i \in DOMAIN facade.sent :
            facade.replies[i] \notin {"", "WeblateException"} =>
                /\ i = Len(facade.sent)
                /\ facade.raised = facade.replies[i]

\* one or more digits
Numeric(token) == token # <<>> /\ \A i \in DOMAIN token : token[i] = "1"

\* C12: get_object(path) goes by the segments of the path stripped of its
\* leading and trailing slashes: a single numeric segment is fetched with
\* one GET of units/<id>/ and gives a Unit, one other segment gives a
\* Project, two a Component, three a Translation, and every other path
\* raises ValueError("Not supported path") without a request.
C12_PathResolution ==
    (facade.call = "get_object" /\ facade.returned) =>
        LET stripped == strip(facade.args, "/")
            parts == split(stripped, "/")
            answered == \A i \in DOMAIN facade.replies : facade.replies[i] = ""
            gives(class) == answered => (facade.raised = "" /\ facade.value = <<class>>)
        IN  CASE Len(parts) = 1 /\ Numeric(parts[1]) ->
                    /\ facade.sent # <<>>
                    /\ facade.sent[1] = Request("GET", <<"units", "/">> \o parts[1] \o <<"/">>)
                    /\ gives("Unit")
              [] Len(parts) = 1 -> gives("Project")
              [] Len(parts) = 2 -> gives("Component")
              [] Len(parts) = 3 -> gives("Translation")
              [] OTHER ->
                    /\ facade.sent = <<>>
                    /\ facade.raised = "ValueError"
                    /\ facade.value = <<"Not supported path">>

\* C13: create_component raises the "<key> is required." WeblateException
\* without a request whenever one of name, slug, file_format, filemask,
\* repo is not among the fields, with or without docfile / zipfile; with
\* all five it makes exactly one POST to projects/<project>/components/
\* whose files are the docfile / zipfile given and whose body is every
\* other field.
C13_RequiredFields ==
    (facade.call = "create_component" /\ facade.returned) =>
        LET project == facade.args[1]
            kwargs == facade.args[2]
            needed == {"name", "slug", "file_format", "filemask", "repo"}
            uploads == {"docfile", "zipfile"}
        IN  IF needed \ DOMAIN kwargs # {}
            THEN /\ facade.sent = <<>>
                 /\ facade.raised = "WeblateException"
                 /\ facade.value[1] \in needed \ DOMAIN kwargs
                 /\ facade.value[2] = "is required."
            ELSE /\ Len(facade.sent) = 1
                 /\ facade.sent[1].method = "POST"
                 /\ facade.sent[1].path =
                        <<"projects", "/">> \o project \o <<"/", "components", "/">>
                 /\ facade.sent[1].files =
                        [key \in DOMAIN kwargs \cap uploads |-> kwargs[key]]
                 /\ facade.sent[1].data =
                        [key \in DOMAIN kwargs \ uploads |-> kwargs[key]]
                 /\ facade.raised = facade.replies[1]

\* C13: a call with a docfile and without repo was refused before any
\* request
C13_Witness ==
    /\ facade.call = "create_component"
    /\ facade.returned
    /\ "docfile" \in DOMAIN facade.args[2]
    /\ {"name", "slug", "file_format", "filemask"} \subseteq DOMAIN facade.args[2]
    /\ "repo" \notin DOMAIN facade.args[2]
    /\ facade.sent = <<>>
    /\ facade.value = <<"repo", "is required.">>

-----------------------------------------------------------------------------
(* Properties of the requests of a Weblate object, checked under           *)
(* SpecSession.                                                            *)

\* the network location is the loopback address, with or without a port
Loopback(netloc) == netloc \in {<<"127.0.0.1">>, <<"127.0.0.1", ":8000">>}

\* C14: a request is sent without certificate verification only when its
\* URL has the scheme https and the loopback address as its host; with
\* every other scheme and host, every http URL included, verification is
\* on.
C14_VerifyUnlessHttpsLoopback ==
    io.method # "" =>
        (io.verify <=> ~(io.path[1] = "https" /\ Loopback(urlparse(io.path).netloc)))

\* the key the object was configured with
ConfiguredKey ==
    IF weblate.given.config # None
    THEN get_url_key(weblate.given.config[2])[2]
    ELSE weblate.given.key

\* C15: every request carries a User-Agent header and Accept:
\* application/json, and carries Authorization: Token <key>, with the key
\* the object was configured with, if and only if that key is not empty,
\* whatever the method and the target.
C15_RequestHeaders ==
    io.method # "" =>
        /\ {"user-agent", "Accept"} \subseteq DOMAIN io.headers
        /\ io.headers["user-agent"] = <<"wlc/1.13">>
        /\ io.headers["Accept"] = <<"application/json">>
        /\ DOMAIN io.headers \subseteq {"user-agent", "Accept", "Authorization"}
        /\ "Authorization" \in DOMAIN io.headers <=> ConfiguredKey # ""
        /\ ConfiguredKey # "" => io.headers["Authorization"] = <<"Token", ConfiguredKey>>

\* C15: a delete to an absolute URL on an object configured from a file
\* whose [keys] section holds the key of its url carried the token
C15_Witness ==
    /\ io.method = "delete"
    /\ weblate.given.config # None
    /\ weblate.given.config[2].section.key = ""
    /\ io.path[1] = "http"
    /\ io.path[3] = "example.com"
    /\ "Authorization" \in DOMAIN io.headers
    /\ io.headers["Authorization"] = <<"Token", "KEY">>

\* C15: a request of an object without a key carried no Authorization
C15_WitnessNoKey ==
    /\ io.method = "get"
    /\ ConfiguredKey = ""
    /\ DOMAIN io.headers = {"user-agent", "Accept"}

\* C18: the adapter mounted for a request retries as the object was
\* configured: its total, backoff factor, allowed methods and status list
\* are those given to the constructor, directly or through the
\* configuration.
C18_ConfiguredRetryPolicy ==
    io.method # "" =>
        LET given == weblate.given
            options ==
                IF given.config # None
                THEN get_request_options(given.config[2])
                ELSE <<given.retries, given.status_forcelist,
                       IF given.method_whitelist # None
                       THEN given.method_whitelist
                       ELSE <<<<"HEAD">>, <<"GET">>, <<"PUT">>, <<"PATCH">>,
                              <<"DELETE">>, <<"OPTIONS">>, <<"TRACE">>>>,
                       given.backoff_factor>>
            policy == io.mount.adapter.max_retries
        IN  /\ policy.total = options[1]
            /\ policy.status_forcelist = options[2]
            /\ policy.allowed_methods = options[3]
            /\ policy.backoff_factor = options[4]

-----------------------------------------------------------------------------
(* Properties of the command line and of the configuration, checked under  *)
(* SpecMain.                                                               *)

\* C16: a configuration file whose main section holds a non-empty key is
\* rejected with a configuration error when it is loaded, and that key is
\* never the credential: the credential comes only from the [keys]
\* section.
C16_MainSectionKeyRejected ==
    (cli.call # "" /\ cli.returned /\ "key" \in DOMAIN cli.file.section) =>
        /\ cli.exit.raised = "WLCConfigurationError"
        /\ cli.credential # cli.file.section.key

\* C17: main returns 0 when the command completes, 1 when it fails with a
\* WeblateException (the denied and the permission errors included) or a
\* CommandError, 10 when it fails with a RequestException; a failing run
\* returns one code and writes the failure to stderr.
C17_ExitCodes ==
    (cli.call = "main" /\ cli.returned) =>
        /\ cli.run = "" => cli.exit.code = <<0>>
        /\ cli.run \in WeblateExceptions \cup {"CommandError"} =>
              cli.exit.code = <<1>> /\ cli.exit.stderr # <<>> /\ cli.exit.raised = ""
        /\ cli.run \in RequestExceptions =>
              cli.exit.code = <<10>> /\ cli.exit.stderr # <<>> /\ cli.exit.raised = ""
        /\ Len(cli.exit.code) <= 1

\* C17: a run whose request failed in the transport returned 10
C17_Witness ==
    /\ cli.call = "main"
    /\ cli.returned
    /\ cli.run = "ConnectionError"
    /\ cli.exit.code = <<10>>
    /\ cli.exit.stderr = <<<<"Request failed: ", "ConnectionError">>>>

\* C17: a run whose credentials were denied returned 1
C17_WitnessDenied ==
    /\ cli.call = "main"
    /\ cli.returned
    /\ cli.run = "WeblateDeniedError"
    /\ cli.exit.code = <<1>>
    /\ Len(cli.exit.stderr) = 2

-----------------------------------------------------------------------------
(* Properties of the repository operations and of keys(), checked under    *)
(* Spec.                                                                   *)

\* the requests of the last call that used the method
RequestsBy(method) ==
    LET by(q) == q.method = method
    IN  SelectSeq(lastOp.sent, by)

\* C19: on a Project, Component or Translation, commit, push, pull, reset
\* and cleanup send one GET of the location of the proxy first if and only
\* if repository_url was not known and the proxy was not loaded; when
\* repository_url is known after that, they send exactly one POST, last,
\* to the repository_url the server supplied, with the name of the method
\* as operation; they send no other POST.
C19_RepositoryOperations ==
    (kind \in RepoObjects /\ lastOp.op \in RepoOperations) =>
        LET gets == RequestsBy("GET")
            posts == RequestsBy("POST")
        IN  /\ Len(gets) = IF ~lastOp.wasExtra /\ ~lastOp.wasLoaded THEN 1 ELSE 0
            /\ gets # <<>> => lastOp.sent[1] = Request("GET", created.url)
            /\ Len(lastOp.sent) = Len(gets) + Len(posts)
            /\ Len(posts) = IF "repository_url" \in DOMAIN obj._attribs THEN 1 ELSE 0
            /\ posts # <<>> =>
                  posts[1] = [method |-> "POST",
                              path |-> obj._attribs["repository_url"][2],
                              operation |-> lastOp.op]

\* C19: a push on a Component that knew nothing but its location loaded it
\* and then posted
C19_Witness ==
    /\ kind = "Component"
    /\ lastOp.op = "push"
    /\ ~lastOp.wasExtra
    /\ ~lastOp.wasLoaded
    /\ lastOp.raised = ""
    /\ Len(lastOp.sent) = 2
    /\ lastOp.sent[2].method = "POST"

\* C20: keys() on a proxy of a kind with optional fields yields, once the
\* fields of the proxy were loaded, exactly the schema fields that are not
\* optional or that the proxy holds, each exactly once.
C20_KeysYieldEachFieldOnce ==
    (lastOp.op = "keys" /\ lastOp.raised = "" /\ OPTIONALS(kind) # {}) =>
        /\ lastOp.wasLoaded \/ lastOp.sent # <<>> \/ ~created.minimal
        /\ Range(lastOp.value) =
              {p \in Range(PARAMS(kind)) :
                  p \notin OPTIONALS(kind) \/ p \in DOMAIN obj._data}
        /\ \A i, j \in DOMAIN lastOp.value :
              lastOp.value[i] = lastOp.value[j] => i = j

-----------------------------------------------------------------------------
(* Properties of the proxy and the resource behind it, checked under       *)
(* SpecServed.                                                             *)

\* the message of the error a 404 is turned into
NotFound ==
    <<"Object not found on the server (maybe operation is not supported on the server)">>

\* C22: delete() sends exactly one DELETE of the location of the proxy and
\* leaves its fields, extras and loaded flag as they were; a later call on
\* the proxy that needs the server is still sent, and ends in the
\* not-found error the transport makes of the 404.
C22_DeleteKeepsTheProxy ==
    /\ lastOp.op = "delete" =>
          /\ lastOp.sent = <<Request("DELETE", created.url)>>
          /\ obj = server.prev
    /\ (lastOp.op # "__init__" /\ ~server.existed) =>
          /\ lastOp.op \in {"delete", "refresh"} => Len(lastOp.sent) = 1
          /\ lastOp.sent # <<>> =>
                /\ lastOp.raised = "WeblateException"
                /\ server.reply.message = NotFound

\* C22: a refresh of a loaded proxy whose resource had been deleted was
\* sent and ended in the not-found error
C22_Witness ==
    /\ lastOp.op = "refresh"
    /\ ~server.existed
    /\ obj._loaded
    /\ lastOp.sent = <<Request("GET", created.url)>>
    /\ lastOp.raised = "WeblateException"
    /\ server.reply.message = NotFound

-----------------------------------------------------------------------------
(* The identifier of a proxy, checked under Spec.                          *)

\* C23: the ID field of every kind is a field of its schema, and
\* to_value() succeeds whenever the proxy holds that field after the load
\* the call may have made; it loads only when the field was not known.
C23_IdentifierObtainable ==
    lastOp.op = "to_value" =>
        /\ ID(kind) \in Range(PARAMS(kind))
        /\ lastOp.sent # <<>> => ~lastOp.wasKnown
        /\ ID(kind) \in DOMAIN obj._data \cup DOMAIN obj._attribs =>
              lastOp.raised = ""

\* C24: setattrvalue(name, value) sends nothing; for a name of the schema
\* it stores the value under that name and leaves the other fields, the
\* extras, the loaded flag and the location as they were; for any other
\* name it raises AttributeError and leaves the proxy as it was.
C24_SetAttrValueFrame ==
    lastOp.op = "setattrvalue" =>
        /\ lastOp.sent = <<>>
        /\ IF lastOp.name \in Range(PARAMS(kind))
           THEN /\ lastOp.raised = ""
                /\ lastOp.name \in DOMAIN obj._data
                /\ obj._data[lastOp.name] \in SetValues(kind, lastOp.name)
                /\ DOMAIN obj._data = DOMAIN server.prev._data \cup {lastOp.name}
                /\ \A n \in DOMAIN server.prev._data \ {lastOp.name} :
                      obj._data[n] = server.prev._data[n]
                /\ obj._attribs = server.prev._attribs
                /\ obj._loaded = server.prev._loaded
                /\ obj._url = server.prev._url
           ELSE /\ lastOp.raised = "AttributeError"
                /\ obj = server.prev

\* C24: a field of a loaded proxy was set to a new value
C24_Witness ==
    /\ lastOp.op = "setattrvalue"
    /\ lastOp.raised = ""
    /\ server.prev._loaded
    /\ lastOp.name \in DOMAIN server.prev._data
    /\ obj._data[lastOp.name] # server.prev._data[lastOp.name]

\* C24: a name that is no field of the schema was refused
C24_WitnessRefused ==
    /\ lastOp.op = "setattrvalue"
    /\ lastOp.name = "missing"
    /\ lastOp.raised = "AttributeError"

\* C25: after a refresh() that succeeded, every schema field of the
\* response holds the value of the response, wrapped or parsed as at
\* construction, every other entry of the response is in the extras, the
\* proxy is loaded, and the proxy holds no schema field the response
\* omits, save those setattrvalue stored.
C25_RefreshReplacesFields ==
    (lastOp.op = "refresh" /\ lastOp.raised = "") =>
        LET response == server.reply.json
        IN  /\ \A n \in DOMAIN response :
                  IF n \in Range(PARAMS(kind))
                  THEN /\ n \in DOMAIN obj._data
                       /\ obj._data[n] = Wrap(kind, n, response[n])
                  ELSE /\ n \in DOMAIN obj._attribs
                       /\ obj._attribs[n] = response[n]
            /\ obj._loaded
            /\ \A n \in DOMAIN obj._data \ server.stamped : n \in DOMAIN response

\* C26: in every state the value the proxy holds under a field of the
\* mapping table of its kind is None or a proxy of the mapped kind,
\* whether the field was set at construction, by a refresh or by
\* setattrvalue.
C26_MappedFieldsAreProxies ==
    \A n \in DOMAIN MAPPINGS(kind) \cap DOMAIN obj._data :
        \/ obj._data[n] = None
        \/ /\ obj._data[n][1] = "LazyObject"
           /\ obj._data[n][2] = MAPPINGS(kind)[n]

\* C27: when the GET of a refresh fails, be the refresh explicit or made
\* by a read, by ensure_loaded or by keys, the call raises the error of
\* the transport and the proxy is as it was before the call; a proxy is
\* loaded only if a refresh of it has succeeded.
C27_FailedLoadLeavesProxy ==
    /\ (/\ lastOp.op \in {"refresh", "__getattr__", "ensure_loaded", "keys"}
        /\ lastOp.sent # <<>>
        /\ server.reply.raises # "") =>
            /\ lastOp.raised = server.reply.raises
            /\ obj = server.prev
    /\ obj._loaded => server.loads

\* C27: a read whose load the server refused left the proxy not loaded
C27_Witness ==
    /\ lastOp.op = "__getattr__"
    /\ lastOp.sent = <<Request("GET", created.url)>>
    /\ lastOp.raised = "WeblatePermissionError"
    /\ server.reply.message = <<"denied">>
    /\ ~obj._loaded
    /\ obj = server.prev

-----------------------------------------------------------------------------
(* Mapped fields, checked under SpecNested.                                *)

\* C21: for every kind with a mapping table and every mapped field, the
\* nested proxy built from the url of a document and the one built from
\* the document itself hold the same fields once the call of the owner
\* has made the proxy built from the url load, and that call ended alike
\* for both; the mapped fields of the nested proxies are nested proxies
\* by the same rule.
C21_UrlAndInlineAgree ==
    (nested.pc = "forced" /\ nested.by_url.self._loaded) =>
        /\ nested.by_url.self._data = nested.inline.self._data
        /\ nested.by_url.self._url = nested.inline.self._url
        /\ nested.by_url.raised = nested.inline.raised
        /\ nested.by_url.value = nested.inline.value
        /\ \A n \in DOMAIN MAPPINGS(MAPPINGS(nested.kind)[nested.param])
                        \cap DOMAIN nested.inline.self._data :
              nested.inline.self._data[n] =
                  Wrap(MAPPINGS(nested.kind)[nested.param], n, nested.held[n])

\* C21: the component of a translation, given by its url and given as an
\* object, was read for its project without the object asking the server
C21_Witness ==
    /\ nested.pc = "forced"
    /\ nested.kind = "Translation"
    /\ nested.param = "component"
    /\ nested.call = <<"__getattr__", "project">>
    /\ nested.by_url.sent # <<>>
    /\ nested.inline.sent = <<>>
    /\ nested.inline.value[1] = "LazyObject"
    /\ nested.by_url.value = nested.inline.value

-----------------------------------------------------------------------------
(* Commands on objects, checked under SpecMain.                            *)

\* the number of segments of an object path
Arity(path) == Len(split(strip(path, "/"), "/"))

\* C28: a command given an object path of more than three segments ends
\* as other failed validations do: main writes one line to stderr and
\* returns 1, and no exception leaves main.
C28_UnsupportedPathExitsOne ==
    (cli.call = "command" /\ cli.returned /\ Arity(cli.args.object) > 3) =>
        /\ cli.exit.raised = ""
        /\ cli.exit.code = <<1>>
        /\ Len(cli.exit.stderr) = 1

\* C29: the download command given the path of a component downloads that
\* component and no other, and writes one file, <project>-<component>.zip,
\* whatever other components the server lists.
C29_DownloadsThatComponent ==
    (cli.call = "download" /\ cli.returned) =>
        /\ cli.downloaded = <<cli.args.object>>
        /\ cli.files = {zip_name(cli.args.object)}

-----------------------------------------------------------------------------
(* Laziness of the pager, checked under SpecPager.                         *)

\* the items of the pages srv[1..m], in the order of the chain
RECURSIVE Delivered(_, _)
Delivered(srv, m) ==
    IF m = 0 THEN <<>>
    ELSE Delivered(srv, m - 1) \o [j \in 1..Len(srv[m]) |-> parser(srv[m][j])]

StartsWith(s, prefix) ==
    /\ Len(prefix) <= Len(s)
    /\ SubSeq(s, 1, Len(prefix)) = prefix

\* C30: a list call sends nothing until its first item is asked for; it
\* GETs the pages in the order of the chain, and when it has sent the GET
\* of page m the consumer holds every item of the pages before m and
\* nothing beyond page m; when the GET of page m fails the consumer holds
\* exactly the items of the pages before m, the error ends the sequence,
\* and no page is asked for after it.
C30_PagesFetchedOnDemand ==
    \A c \in DOMAIN calls :
        LET m == Len(calls[c].gets)
        IN  /\ (c = Len(calls) /\ gen.pc = "created") => m = 0
            /\ calls[c].gets = [i \in 1..m |-> i]
            /\ m = 0 => calls[c].items = <<>>
            /\ m > 0 =>
                  /\ m <= Len(listing)
                  /\ StartsWith(calls[c].items, Delivered(listing, m - 1))
                  /\ StartsWith(Delivered(listing, m), calls[c].items)
            /\ calls[c].ended = "WeblateException" =>
                  /\ m > 0
                  /\ calls[c].items = Delivered(listing, m - 1)
                  /\ c = Len(calls) => gen.pc = "done"

\* C30: the GET of the second page failed after both items of the first
\* had been delivered, a third page was never asked for
C30_Witness ==
    /\ Len(listing) = 3
    /\ calls # <<>>
    /\ calls[1].ended = "WeblateException"
    /\ calls[1].gets = <<1, 2>>
    /\ Len(calls[1].items) = 2
    /\ gen.pc = "done"

\* C30: a list call had been made and nothing sent
C30_WitnessNotStarted ==
    /\ Len(calls) = 1
    /\ gen.pc = "created"
    /\ wire = <<>>

=============================================================================
